---------------------------- MODULE Spec2Model ----------------------------
(***************************************************************************)
(* SolarStorm Scout: the propagation-metrics derivation of                 *)
(* src/solarstorm_scout/spaceweather.py, the thread of formatter.py, the   *)
(* posting of social.py and the invocation of main.py as a state machine.  *)
(*                                                                         *)
(* Numbers.  The code computes in floating point; the model computes the   *)
(* same expressions exactly, in fixed point:                               *)
(*   - a frequency (foF2, MUF, band reference frequency) is an integer     *)
(*     number of kHz, so 7.1 MHz is 7100;                                  *)
(*   - an absorption factor is an integer number of 1/AbsOne, so 1.0 is    *)
(*     AbsOne; AbsOne is a multiple of 6 * 150 * 20, which makes every     *)
(*     division of calculate_d_layer_absorption exact for an integer hour  *)
(*     and an integer solar flux;                                          *)
(*   - the solar flux index and the K-index are integers.                  *)
(* A square root is the floor of the root in kHz.                          *)
(* The code's floating-point results differ from these exact values by     *)
(* rounding in the last place only; that moves a comparison only where its *)
(* two sides are equal in exact arithmetic (0.3 * (200 / 150.0) is just    *)
(* below 0.4, 1.44 * 2.5 just below 3.6).                                  *)
(***************************************************************************)
EXTENDS Integers, Sequences, FiniteSets, TLC

VARIABLES
    pc,        \* "idle": no call in progress; "returned": a call has returned
    args,      \* the function called (args.fn) and its arguments
    locals,    \* the local variables of that call the claims speak about
    ret,       \* the value the call returned
    timeline,  \* the posts published on each platform, in the order of sending
    files,     \* the tracking files ~/.solarstorm_scout/.last_run and .last_hamradio
    now        \* the wall clock, in minutes

\* what lies outside the process: the platforms, the file system and the clock
env == <<timeline, files, now>>

vars == <<pc, args, locals, ret, timeline, files, now>>

---------------------------------------------------------------------------
(* Bounds of the input sets. *)

\* hours run over -HourBelow .. MaxHour (the estimator takes any integer)
HourBelow == 3
MaxHour == 26
\* solar flux runs over -FluxBelow .. MaxFlux
FluxBelow == 20
MaxFlux == 320
\* K-index runs over 0 .. MaxK
MaxK == 6
\* get_best_bands_now: foF2 runs over 0 .. MaxFof2Tenths tenths of a MHz
MaxFof2Tenths == 120
\* calculate_band_conditions: the MUF is taken at each band's reference frequency
\* and MufStep kHz either side of it; foF2 at each threshold the classifier compares
\* it with (5.0, 7.0, frequency / 2.5) and Fof2Step kHz either side of it
MufStep == 500
Fof2Step == 20
\* calculate_band_conditions: hours 0 .. MaxBandHour, K-index 0 .. MaxBandK,
\* absorption MinAbsTenths/10 .. MaxAbsTenths/10
MaxBandHour == 23
MaxBandK == 4
MinAbsTenths == 3
MaxAbsTenths == 5
\* fetch_space_weather_data: a solar-flux feed holds at most MaxEntries entries
MaxEntries == 2

---------------------------------------------------------------------------
(* Arithmetic helpers. *)

AbsVal(x) == IF x < 0 THEN -x ELSE x

Min(a, b) == IF a < b THEN a ELSE b

Max(a, b) == IF a > b THEN a ELSE b

\* the representation of the absorption factor 1.0
AbsOne == 6 * 150 * 20

RECURSIVE SqrtBetween(_, _, _)
\* the largest r in lo..hi with r * r <= n (lo * lo <= n < (hi + 1) * (hi + 1))
SqrtBetween(n, lo, hi) ==
    IF lo >= hi THEN lo
    ELSE LET mid == (lo + hi + 1) \div 2
         IN  IF mid * mid <= n THEN SqrtBetween(n, mid, hi)
                               ELSE SqrtBetween(n, lo, mid - 1)

\* math.sqrt on a non-negative integer, rounded down
ISqrt(n) == SqrtBetween(n, 0, 40000)

\* round(x, 1) of a non-negative frequency in kHz: the nearest 0.1 MHz
Round1(x) == ((x + 50) \div 100) * 100

---------------------------------------------------------------------------
(* estimate_fof2_from_sfi *)

\* the floor of the solar flux index
SfiFloor == 50

\* variant of floored_sfi: the floor is forgotten
floored_sfi_unfloored(sfi_value) == sfi_value

\* max(sfi_value, 50)
floored_sfi(sfi_value) == Max(sfi_value, SfiFloor)

\* 7.0 * sqrt(max(sfi_value, 50) / 100.0), in kHz:
\* (7 * sqrt(m / 100) * 1000)^2 = 49 * m * 10000
estimate_fof2_from_sfi(sfi_value) == ISqrt(49 * floored_sfi(sfi_value) * 10000)

---------------------------------------------------------------------------
(* calculate_d_layer_absorption *)

\* hour_angle = abs(utc_hour - 12)
hour_angle_of(utc_hour) == AbsVal(utc_hour - 12)

\* variant of night_branch: the boundary hour_angle = 6 falls to the night side
night_branch_inclusive(hour_angle) == hour_angle >= 6

\* the night branch is taken when hour_angle > 6
night_branch(hour_angle) == hour_angle > 6

\* base_absorption before the flux scaling:
\* 0.05 at night, 0.3 + (0.4 * (1.0 - hour_angle / 6.0)) in the day
base_for_hour(hour_angle) ==
    IF night_branch(hour_angle)
    THEN AbsOne \div 20
    ELSE ((3 * AbsOne) \div 10) + ((((4 * AbsOne) \div 10) * (6 - hour_angle)) \div 6)

\* time_desc
time_desc_of(hour_angle) == IF night_branch(hour_angle) THEN "Night" ELSE "Day"

\* sfi_factor = min(solar_flux / 150.0, 2.0), in 1/150
sfi_factor_of(solar_flux) == Min(solar_flux, 2 * 150)

\* base_absorption *= sfi_factor
scale_by_flux(base_absorption, solar_flux) ==
    (base_absorption * sfi_factor_of(solar_flux)) \div 150

\* variant of storm_surcharge: the surcharge grows with the K-index above 5
storm_surcharge_growing(k_index) ==
    IF k_index >= 5 THEN (k_index - 4) * (AbsOne \div 5) ELSE 0

\* variant of storm_surcharge: the surcharge applies at K-index 5 only
storm_surcharge_at_5_only(k_index) == IF k_index = 5 THEN AbsOne \div 5 ELSE 0

\* if k_index >= 5: base_absorption += 0.2
storm_surcharge(k_index) == IF k_index >= 5 THEN AbsOne \div 5 ELSE 0

\* base_absorption as it stands when line 83 reads it (the pre-clamp value)
pre_clamp(utc_hour, solar_flux, k_index) ==
    scale_by_flux(base_for_hour(hour_angle_of(utc_hour)), solar_flux)
        + storm_surcharge(k_index)

\* absorption = min(base_absorption, 1.0)
clamp_absorption(base_absorption) == Min(base_absorption, AbsOne)

\* variant of describe_absorption: the thresholds are inclusive
describe_absorption_inclusive(absorption) ==
    IF absorption * 10 <= 2 * AbsOne THEN [desc |-> "Low", emoji |-> "green"]
    ELSE IF absorption * 10 <= 4 * AbsOne THEN [desc |-> "Moderate", emoji |-> "yellow"]
    ELSE IF absorption * 10 <= 6 * AbsOne THEN [desc |-> "High", emoji |-> "orange"]
    ELSE [desc |-> "Very High", emoji |-> "red"]

\* the description and its emoji, from the clamped factor
describe_absorption(absorption) ==
    IF absorption * 10 < 2 * AbsOne THEN [desc |-> "Low", emoji |-> "green"]
    ELSE IF absorption * 10 < 4 * AbsOne THEN [desc |-> "Moderate", emoji |-> "yellow"]
    ELSE IF absorption * 10 < 6 * AbsOne THEN [desc |-> "High", emoji |-> "orange"]
    ELSE [desc |-> "Very High", emoji |-> "red"]

\* the returned tuple (absorption, f"{emoji} {desc}"), desc = f"{level} ({time_desc})"
calculate_d_layer_absorption(utc_hour, solar_flux, k_index) ==
    LET absorption == clamp_absorption(pre_clamp(utc_hour, solar_flux, k_index))
        d == describe_absorption(absorption)
    IN  [absorption |-> absorption,
         emoji |-> d.emoji,
         desc |-> d.desc,
         time_desc |-> time_desc_of(hour_angle_of(utc_hour))]

---------------------------------------------------------------------------
(* calculate_band_conditions *)

BandNames == {"160m", "80m", "40m", "30m", "20m", "17m", "15m", "12m", "10m", "6m"}

\* the bands table: reference frequency (kHz) and description
bands ==
    [band \in BandNames |->
        CASE band = "160m" -> [freq |-> 1900, desc |-> "Regional/DX at night"]
          [] band = "80m"  -> [freq |-> 3600, desc |-> "Reliable day/night"]
          [] band = "40m"  -> [freq |-> 7100, desc |-> "Most reliable"]
          [] band = "30m"  -> [freq |-> 10100, desc |-> "CW/digital DX"]
          [] band = "20m"  -> [freq |-> 14200, desc |-> "Premier DX"]
          [] band = "17m"  -> [freq |-> 18100, desc |-> "Underused gem"]
          [] band = "15m"  -> [freq |-> 21200, desc |-> "Solar-dependent"]
          [] band = "12m"  -> [freq |-> 24900, desc |-> "Solar-dependent"]
          [] band = "10m"  -> [freq |-> 28500, desc |-> "Magic band"]
          [] band = "6m"   -> [freq |-> 50100, desc |-> "VHF magic"]]

\* variant of is_night: hour 18 is night
is_night_from_18(utc_hour) == utc_hour < 6 \/ utc_hour >= 18

\* is_night = (utc_hour < 6 or utc_hour > 18)
is_night(utc_hour) == utc_hour < 6 \/ utc_hour > 18

\* variant of above_muf: a band exactly at the MUF is closed too
above_muf_inclusive(freq, muf) == freq >= muf

\* freq > muf
above_muf(freq, muf) == freq > muf

\* variant of marginal: the factor is 5 instead of 2.5
marginal_factor_5(freq, fof2) == freq > fof2 * 5

\* freq > fof2 * 2.5
marginal(freq, fof2) == freq * 10 > fof2 * 25

Status(emoji, quality, band) ==
    [emoji |-> emoji, quality |-> quality, desc |-> bands[band].desc]

\* variant of band_condition: the low-band rule is tried before the marginal rule
band_condition_low_first(band, fof2, muf, absorption, k_index, utc_hour) ==
    LET freq == bands[band].freq
    IN  IF above_muf(freq, muf) THEN Status("red", "Closed", band)
        ELSE IF band \in {"160m", "80m"}
        THEN IF is_night(utc_hour) THEN Status("green", "Good", band)
                                   ELSE Status("yellow", "Fair", band)
        ELSE IF marginal(freq, fof2) THEN Status("yellow", "Fair", band)
        ELSE IF band \in {"15m", "12m", "10m", "6m"}
        THEN IF fof2 > 7000 /\ k_index < 4 THEN Status("green", "Good", band)
             ELSE IF fof2 > 5000 THEN Status("yellow", "Fair", band)
             ELSE Status("red", "Poor", band)
        ELSE IF k_index < 4 /\ absorption * 2 < AbsOne
        THEN Status("green", "Good", band)
        ELSE Status("yellow", "Fair", band)

\* the body of the loop over the bands: the first rule that matches decides
band_condition(band, fof2, muf, absorption, k_index, utc_hour) ==
    LET freq == bands[band].freq
    IN  IF above_muf(freq, muf) THEN Status("red", "Closed", band)
        ELSE IF marginal(freq, fof2) THEN Status("yellow", "Fair", band)
        ELSE IF band \in {"160m", "80m"}
        THEN IF is_night(utc_hour) THEN Status("green", "Good", band)
                                   ELSE Status("yellow", "Fair", band)
        ELSE IF band \in {"15m", "12m", "10m", "6m"}
        THEN IF fof2 > 7000 /\ k_index < 4 THEN Status("green", "Good", band)
             ELSE IF fof2 > 5000 THEN Status("yellow", "Fair", band)
             ELSE Status("red", "Poor", band)
        ELSE IF k_index < 4 /\ absorption * 2 < AbsOne
        THEN Status("green", "Good", band)
        ELSE Status("yellow", "Fair", band)

\* the conditions dict
calculate_band_conditions(fof2, muf, absorption, k_index, utc_hour) ==
    [band \in BandNames |->
        band_condition(band, fof2, muf, absorption, k_index, utc_hour)]

---------------------------------------------------------------------------
(* get_best_bands_now *)

\* is_day = (6 <= utc_hour <= 18)
is_day(utc_hour) == 6 <= utc_hour /\ utc_hour <= 18

\* variant of exceeds: the threshold itself passes
exceeds_inclusive(fof2, threshold) == fof2 >= threshold

\* fof2 > threshold
exceeds(fof2, threshold) == fof2 > threshold

get_best_bands_now(utc_hour, fof2) ==
    IF is_day(utc_hour)
    THEN IF exceeds(fof2, 8000) THEN "20m, 17m, 15m, 12m"
         ELSE IF exceeds(fof2, 6000) THEN "40m, 30m, 20m, 17m"
         ELSE "40m, 30m, 20m"
    ELSE IF exceeds(fof2, 7000) THEN "80m, 40m, 30m, 20m"
         ELSE "80m, 40m, 30m"

---------------------------------------------------------------------------
(* The calls. *)

NoCall == [fn |-> "none"]

\* the two platforms, by the names SocialMediaManager gives them
Platforms == {"Bluesky", "Mastodon"}

\* a tracking file that does not exist
NoFile == [exists |-> FALSE]

\* no post published yet, no tracking file written yet
FreshEnv ==
    /\ timeline = [platform \in Platforms |-> <<>>]
    /\ files = [last_run |-> NoFile, last_hamradio |-> NoFile]
    /\ now = 0

Init ==
    /\ pc = "idle"
    /\ args = NoCall
    /\ locals = NoCall
    /\ ret = NoCall
    /\ FreshEnv

\* the caller takes the returned value; the next call may start
Return ==
    /\ pc = "returned"
    /\ pc' = "idle"
    /\ UNCHANGED env
    /\ args' = NoCall
    /\ locals' = NoCall
    /\ ret' = NoCall

Hours == (0 - HourBelow) .. MaxHour

Fluxes == (0 - FluxBelow) .. MaxFlux

KIndexes == 0 .. MaxK

CallAbsorption ==
    /\ pc = "idle"
    /\ \E utc_hour \in Hours, solar_flux \in Fluxes, k_index \in KIndexes :
        /\ args' = [fn |-> "calculate_d_layer_absorption", utc_hour |-> utc_hour,
                    solar_flux |-> solar_flux, k_index |-> k_index]
        /\ locals' = [fn |-> "calculate_d_layer_absorption",
                      hour_angle |-> hour_angle_of(utc_hour),
                      base_absorption |-> pre_clamp(utc_hour, solar_flux, k_index)]
        /\ ret' = calculate_d_layer_absorption(utc_hour, solar_flux, k_index)
    /\ pc' = "returned"
    /\ UNCHANGED env

SpecAbsorption == Init /\ [][CallAbsorption \/ Return]_vars

CallFof2 ==
    /\ pc = "idle"
    /\ \E sfi_value \in Fluxes :
        /\ args' = [fn |-> "estimate_fof2_from_sfi", sfi_value |-> sfi_value]
        /\ locals' = [fn |-> "estimate_fof2_from_sfi"]
        /\ ret' = estimate_fof2_from_sfi(sfi_value)
    /\ pc' = "returned"
    /\ UNCHANGED env

SpecFof2 == Init /\ [][CallFof2 \/ Return]_vars

Fof2Tenths == {k * 100 : k \in 0 .. MaxFof2Tenths}

CallBestBands ==
    /\ pc = "idle"
    /\ \E utc_hour \in Hours, fof2 \in Fof2Tenths :
        /\ args' = [fn |-> "get_best_bands_now", utc_hour |-> utc_hour, fof2 |-> fof2]
        /\ locals' = [fn |-> "get_best_bands_now"]
        /\ ret' = get_best_bands_now(utc_hour, fof2)
    /\ pc' = "returned"
    /\ UNCHANGED env

SpecBestBands == Init /\ [][CallBestBands \/ Return]_vars

\* each value the classifier compares foF2 with, and Fof2Step either side of it
Fof2Grid ==
    UNION {{t - Fof2Step, t, t + Fof2Step} :
              t \in {5000, 7000} \cup {(bands[b].freq * 10) \div 25 : b \in BandNames}}

\* each band's reference frequency, and MufStep either side of it
MufGrid ==
    UNION {{bands[b].freq - MufStep, bands[b].freq, bands[b].freq + MufStep} :
              b \in BandNames}

AbsGrid == {(k * AbsOne) \div 10 : k \in MinAbsTenths .. MaxAbsTenths}

CallBandConditions ==
    /\ pc = "idle"
    /\ \E fof2 \in Fof2Grid, muf \in MufGrid, absorption \in AbsGrid,
          k_index \in 0 .. MaxBandK, utc_hour \in 0 .. MaxBandHour :
        /\ args' = [fn |-> "calculate_band_conditions", fof2 |-> fof2, muf |-> muf,
                    absorption |-> absorption, k_index |-> k_index,
                    utc_hour |-> utc_hour]
        /\ locals' = [fn |-> "calculate_band_conditions"]
        /\ ret' = calculate_band_conditions(fof2, muf, absorption, k_index, utc_hour)
    /\ pc' = "returned"
    /\ UNCHANGED env

SpecBandConditions == Init /\ [][CallBandConditions \/ Return]_vars

---------------------------------------------------------------------------
(* Properties of calculate_d_layer_absorption. *)

AbsorptionReturned ==
    pc = "returned" /\ args.fn = "calculate_d_layer_absorption"

\* C1: the returned absorption factor lies in [0, 1] for every input triple,
\* solar flux of zero or below and hours outside 0..23 included.
C1_AbsorptionInUnitInterval ==
    AbsorptionReturned => (0 <= ret.absorption /\ ret.absorption <= AbsOne)

\* C4: the pre-clamp value is base * min(solar_flux / 150, 2.0), plus 0.2 when
\* K >= 5, where base is 0.05 for hour_angle > 6 and
\* 0.3 + 0.4 * (1 - hour_angle / 6) otherwise (0.3 at hour_angle = 6); and
\* hour 12, flux 150, K 0 gives exactly 0.7.
\* Both sides are multiplied by 60 * 150: base is base60 / 60, the scale factor
\* factor150 / 150, and 0.2 is 1800 / (60 * 150).
C4_PreClampFormula ==
    AbsorptionReturned =>
        LET hour_angle == IF args.utc_hour >= 12 THEN args.utc_hour - 12
                                                 ELSE 12 - args.utc_hour
            base60 == IF hour_angle > 6 THEN 3 ELSE 18 + (4 * (6 - hour_angle))
            factor150 == IF args.solar_flux < 300 THEN args.solar_flux ELSE 300
            surcharge == IF args.k_index >= 5 THEN 1800 ELSE 0
        IN  /\ locals.base_absorption * 60 * 150
                = AbsOne * ((base60 * factor150) + surcharge)
            /\ (hour_angle = 6 /\ args.solar_flux = 150 /\ args.k_index < 5)
                => locals.base_absorption * 10 = 3 * AbsOne
            /\ (args.utc_hour = 12 /\ args.solar_flux = 150 /\ args.k_index = 0)
                => (locals.base_absorption * 10 = 7 * AbsOne
                    /\ ret.absorption * 10 = 7 * AbsOne)

\* C4 witness: the call (18, 150, 0), at the day/night boundary, has returned 0.3
W4_BoundaryHourIsDay ==
    /\ AbsorptionReturned
    /\ args.utc_hour = 18 /\ args.solar_flux = 150 /\ args.k_index = 0
    /\ locals.hour_angle = 6
    /\ ret.absorption * 10 = 3 * AbsOne

\* C5: for every hour and flux, the pre-clamp value for any K >= 5 is the
\* pre-clamp value for any K < 5 plus exactly 0.2, whatever K above 5 is.
C5_StormSurchargeFlat ==
    (AbsorptionReturned /\ args.k_index >= 5) =>
        \A k \in KIndexes :
            /\ k < 5 => locals.base_absorption * 5
                          = (pre_clamp(args.utc_hour, args.solar_flux, k) * 5) + AbsOne
            /\ k >= 5 => locals.base_absorption
                          = pre_clamp(args.utc_hour, args.solar_flux, k)

\* C5 witness: a call with K above 5 whose pre-clamp value exceeds 1.0, so the
\* surcharge was added before the clamp
W5_SurchargeBeforeClamp ==
    /\ AbsorptionReturned
    /\ args.k_index > 5
    /\ locals.base_absorption > AbsOne
    /\ ret.absorption = AbsOne
    /\ pre_clamp(args.utc_hour, args.solar_flux, 0) < AbsOne

\* C6: for a fixed hour the returned factor is non-decreasing in the solar
\* flux (K fixed) and non-decreasing in the K-index (flux fixed).
\* The flux runs over consecutive integers and every call is a reachable state,
\* so "the factor at flux + 1 is no smaller", holding in each state, is
\* monotonicity over the whole range; the K-index is compared with every larger one.
C6_AbsorptionMonotone ==
    AbsorptionReturned =>
        /\ calculate_d_layer_absorption(args.utc_hour, args.solar_flux + 1,
                                        args.k_index).absorption
              >= ret.absorption
        /\ \A k \in KIndexes :
              k >= args.k_index =>
                  calculate_d_layer_absorption(args.utc_hour, args.solar_flux, k).absorption
                      >= ret.absorption

\* C6 witness: a call below the storm threshold whose factor is strictly below
\* that of a larger flux and strictly below that of a larger K-index
W6_StrictlyBelowLargerInputs ==
    /\ AbsorptionReturned
    /\ args.k_index = 4 /\ args.solar_flux = 100 /\ args.utc_hour = 12
    /\ calculate_d_layer_absorption(12, 101, 4).absorption > ret.absorption
    /\ calculate_d_layer_absorption(12, 100, 6).absorption > ret.absorption

\* C7: the category follows from the clamped factor alone (< 0.2 Low, < 0.4
\* Moderate, < 0.6 High, else Very High) and is suffixed Night exactly when
\* |utc_hour - 12| > 6; (0, 70, 0) gives Low (Night), (12, 150, 0) Very High (Day).
C7_CategoryFromFactor ==
    AbsorptionReturned =>
        LET a10 == ret.absorption * 10
        IN  /\ a10 < 2 * AbsOne => ret.desc = "Low"
            /\ (2 * AbsOne <= a10 /\ a10 < 4 * AbsOne) => ret.desc = "Moderate"
            /\ (4 * AbsOne <= a10 /\ a10 < 6 * AbsOne) => ret.desc = "High"
            /\ 6 * AbsOne <= a10 => ret.desc = "Very High"
            /\ ret.time_desc = "Night"
                 <=> (args.utc_hour - 12 > 6 \/ 12 - args.utc_hour > 6)
            /\ ret.time_desc \in {"Night", "Day"}
            /\ (args.utc_hour = 0 /\ args.solar_flux = 70 /\ args.k_index = 0)
                 => (ret.desc = "Low" /\ ret.time_desc = "Night")
            /\ (args.utc_hour = 12 /\ args.solar_flux = 150 /\ args.k_index = 0)
                 => (ret.desc = "Very High" /\ ret.time_desc = "Day")

\* C7 witness: a storm-time night call whose factor is exactly 0.2, the lower edge
\* of Moderate
W7_ExactlyAtThreshold ==
    /\ AbsorptionReturned
    /\ ret.absorption * 10 = 2 * AbsOne
    /\ ret.desc = "Moderate"
    /\ ret.time_desc = "Night"

---------------------------------------------------------------------------
(* Properties of calculate_band_conditions. *)

BandsReturned == pc = "returned" /\ args.fn = "calculate_band_conditions"

LowBands == {"160m", "80m"}

HighBands == {"15m", "12m", "10m", "6m"}

MidBands == {"40m", "30m", "20m", "17m"}

\* C2: each of the 10 bands gets the quality of the first matching rule, in the
\* order (1) above the MUF -> Closed, (2) above 2.5 x foF2 -> Fair, (3) 160m/80m ->
\* Good at night (hour < 6 or > 18) else Fair, (4) 15m/12m/10m/6m -> Good if
\* foF2 > 7.0 and K < 4, else Fair if foF2 > 5.0, else Poor, (5) 40m/30m/20m/17m ->
\* Good if K < 4 and absorption < 0.5, else Fair; for (7.0, 28.0, 0.3, K 2,
\* hour 12) 10m is Closed and 20m is Good.
C2_FirstMatchingRule ==
    BandsReturned =>
        /\ DOMAIN ret = LowBands \cup MidBands \cup HighBands
        /\ Cardinality(DOMAIN ret) = 10
        /\ \A band \in DOMAIN ret :
              LET freq == bands[band].freq
                  quality == ret[band].quality
                  rule1 == freq > args.muf
                  rule2 == 2 * freq > 5 * args.fof2
                  night == args.utc_hour < 6 \/ args.utc_hour > 18
              IN  /\ rule1 => quality = "Closed"
                  /\ (~rule1 /\ rule2) => quality = "Fair"
                  /\ (~rule1 /\ ~rule2 /\ band \in LowBands)
                        => quality = (IF night THEN "Good" ELSE "Fair")
                  /\ (~rule1 /\ ~rule2 /\ band \in HighBands)
                        => quality = (IF args.fof2 > 7000 /\ args.k_index < 4
                                      THEN "Good"
                                      ELSE IF args.fof2 > 5000 THEN "Fair" ELSE "Poor")
                  /\ (~rule1 /\ ~rule2 /\ band \in MidBands)
                        => quality = (IF args.k_index < 4 /\ 2 * args.absorption < AbsOne
                                      THEN "Good" ELSE "Fair")
        /\ (/\ args.fof2 = 7000 /\ args.muf = 28000 /\ 10 * args.absorption = 3 * AbsOne
            /\ args.k_index = 2 /\ args.utc_hour = 12)
              => (ret["10m"].quality = "Closed" /\ ret["20m"].quality = "Good")

\* C2 witness: the call (7.0, 28.0, 0.3, 2, 12) has returned, and in it 80m is
\* decided by the low-band rule (Fair by day) while 17m, above 2.5 x foF2, is Fair
W2_DocumentedExample ==
    /\ BandsReturned
    /\ args.fof2 = 7000 /\ args.muf = 28000 /\ 10 * args.absorption = 3 * AbsOne
    /\ args.k_index = 2 /\ args.utc_hour = 12
    /\ ret["10m"].quality = "Closed"
    /\ ret["20m"].quality = "Good"
    /\ ret["17m"].quality = "Fair"
    /\ ret["80m"].quality = "Fair"

\* the reference frequencies (kHz) as the documentation lists them
ReferenceKHz ==
    [band \in LowBands \cup MidBands \cup HighBands |->
        CASE band = "160m" -> 1900 [] band = "80m" -> 3600 [] band = "40m" -> 7100
          [] band = "30m" -> 10100 [] band = "20m" -> 14200 [] band = "17m" -> 18100
          [] band = "15m" -> 21200 [] band = "12m" -> 24900 [] band = "10m" -> 28500
          [] band = "6m" -> 50100]

\* C3: a band is classified Closed exactly when its reference frequency is
\* strictly greater than the MUF, whatever foF2, absorption, K and the hour are.
C3_ClosedIffAboveMuf ==
    BandsReturned =>
        \A band \in DOMAIN ReferenceKHz :
            (ret[band].quality = "Closed") <=> (ReferenceKHz[band] > args.muf)

\* C3 witness: the MUF is exactly 20m's reference frequency: 20m is not Closed and
\* 17m, the next band up, is
W3_BandExactlyAtMuf ==
    /\ BandsReturned
    /\ args.muf = 14200
    /\ ret["20m"].quality # "Closed"
    /\ ret["17m"].quality = "Closed"

---------------------------------------------------------------------------
(* Properties of estimate_fof2_from_sfi. *)

Fof2Returned == pc = "returned" /\ args.fn = "estimate_fof2_from_sfi"

---------------------------------------------------------------------------
(* Properties of get_best_bands_now. *)

BestBandsReturned == pc = "returned" /\ args.fn = "get_best_bands_now"

\* C10: with day defined as 6 <= hour <= 18, get_best_bands_now returns by day
\* '20m, 17m, 15m, 12m' if foF2 > 8.0, else '40m, 30m, 20m, 17m' if foF2 > 6.0, else
\* '40m, 30m, 20m'; at night '80m, 40m, 30m, 20m' if foF2 > 7.0, else '80m, 40m, 30m';
\* the thresholds are strict; (14, 9.0) -> '20m, 17m, 15m, 12m' and
\* (2, 5.0) -> '80m, 40m, 30m'.
C10_BestBandsTable ==
    BestBandsReturned =>
        LET day == args.utc_hour >= 6 /\ args.utc_hour <= 18
            f == args.fof2
        IN  /\ (day /\ f > 8000) => ret = "20m, 17m, 15m, 12m"
            /\ (day /\ f > 6000 /\ f <= 8000) => ret = "40m, 30m, 20m, 17m"
            /\ (day /\ f <= 6000) => ret = "40m, 30m, 20m"
            /\ (~day /\ f > 7000) => ret = "80m, 40m, 30m, 20m"
            /\ (~day /\ f <= 7000) => ret = "80m, 40m, 30m"
            /\ (args.utc_hour = 14 /\ f = 9000) => ret = "20m, 17m, 15m, 12m"
            /\ (args.utc_hour = 2 /\ f = 5000) => ret = "80m, 40m, 30m"

\* C10 witness: foF2 exactly 8.0 at hour 18, the last day hour, has fallen to the
\* lower set
W10_ThresholdFallsToLowerSet ==
    /\ BestBandsReturned
    /\ args.utc_hour = 18 /\ args.fof2 = 8000
    /\ ret = "40m, 30m, 20m, 17m"

---------------------------------------------------------------------------
(* fetch_space_weather_data: the values of the data dict. *)

\* A value of the dict is tagged with its Python type: the string 'N/A', a number
\* (int or float), another string, or a dict.  A key the code has not set is not
\* in the DOMAIN of the dict.
NA == [kind |-> "N/A"]

Number(v) == [kind |-> "number", value |-> v]

Text(s) == [kind |-> "str", value |-> s]

Dict(d) == [kind |-> "dict", value |-> d]

\* isinstance(x, (int, float)); isinstance(x, int) for the K-index, an int when set
IsNumber(x) == x.kind = "number"

\* data[key] = value
Put(data, key, value) == (key :> value) @@ data

SetMax(S) == CHOOSE x \in S : \A y \in S : y <= x

\* int(x) of a number given in tenths: truncation toward zero
PyInt(tenths) == IF tenths >= 0 THEN tenths \div 10 ELSE 0 - ((0 - tenths) \div 10)

\* the dict as created at the top of the try block; the timestamp's value is
\* not modelled
initial_data ==
    [timestamp |-> Text("timestamp"),
     solar_flux |-> NA,
     k_index |-> NA,
     aurora_power |-> NA,
     xray_class |-> NA,
     xray_flux |-> NA,
     d_region_absorption |-> NA,
     propagation_conditions |-> NA,
     fof2 |-> NA]

(* An HTTP exchange ends in one of three ways: an exception inside the try    *)
(* block (connection error, timeout, invalid JSON, a value int() or a         *)
(* comparison rejects), a status other than 200, or status 200 with a body.   *)
HttpError == [outcome |-> "error"]

HttpStatus == [outcome |-> "status"]

HttpOk(json) == [outcome |-> "ok", json |-> json]

\* int(entry.get('flux', 0)); the feed gives the flux in tenths
entry_flux(entry) == IF "flux" \in DOMAIN entry THEN PyInt(entry.flux) ELSE PyInt(0)

\* the solar-flux block: the most recent Noon entry, else the latest entry
process_solar_flux(data, resp) ==
    IF resp.outcome = "ok" /\ Len(resp.json) > 0
    THEN LET flux_data == resp.json
             noon == {i \in 1 .. Len(flux_data) :
                         flux_data[i].reporting_schedule = "Noon"}
         IN  IF noon # {}
             THEN Put(data, "solar_flux", Number(entry_flux(flux_data[SetMax(noon)])))
             ELSE Put(data, "solar_flux", Number(entry_flux(flux_data[Len(flux_data)])))
    ELSE data

\* int(k_data[-1].get('kp_index', 0))
entry_kp(entry) == IF "kp_index" \in DOMAIN entry THEN entry.kp_index ELSE 0

\* int((k_index ** 2) * 3.3): 3.3 is 33/10, int() truncates
a_index_of(k_index) == (k_index * k_index * 33) \div 10

\* the A-index block
with_a_index(data) ==
    IF IsNumber(data["k_index"])
    THEN Put(data, "a_index", Number(a_index_of(data["k_index"].value)))
    ELSE Put(data, "a_index", NA)

\* the K-index block followed by the A-index block
process_k_index(data, resp) ==
    with_a_index(
        IF resp.outcome = "ok" /\ Len(resp.json) > 0
        THEN Put(data, "k_index", Number(entry_kp(resp.json[Len(resp.json)])))
        ELSE data)

\* the NOAA scales block; resp.json is scales_data['0'] reduced to the three Scale
\* strings
process_scales(data, resp) ==
    IF resp.outcome = "ok"
    THEN Put(Put(Put(data, "r_scale", Text(resp.json.R)),
                 "s_scale", Text(resp.json.S)),
             "g_scale", Text(resp.json.G))
    ELSE IF resp.outcome = "error"
    THEN Put(Put(Put(data, "r_scale", NA), "s_scale", NA), "g_scale", NA)
    ELSE data

\* an X-ray flux is an integer number of 1e-10 W/m^2
XrayUnitsPerE8 == 100

\* f"{x:.1f}" of the quotient n / d, in tenths (to the nearest tenth)
OneDecimal(n, d) == ((20 * n) + d) \div (2 * d)

\* variant of xray_class_of: the thresholds are exclusive
xray_class_of_exclusive(flux) ==
    IF flux > 10000 * XrayUnitsPerE8
    THEN [letter |-> "X", tenths |-> OneDecimal(flux, 10000 * XrayUnitsPerE8)]
    ELSE IF flux > 1000 * XrayUnitsPerE8
    THEN [letter |-> "M", tenths |-> OneDecimal(flux, 1000 * XrayUnitsPerE8)]
    ELSE IF flux > 100 * XrayUnitsPerE8
    THEN [letter |-> "C", tenths |-> OneDecimal(flux, 100 * XrayUnitsPerE8)]
    ELSE IF flux > 10 * XrayUnitsPerE8
    THEN [letter |-> "B", tenths |-> OneDecimal(flux, 10 * XrayUnitsPerE8)]
    ELSE [letter |-> "A", tenths |-> OneDecimal(flux, XrayUnitsPerE8)]

\* the X-ray class: letter and magnitude (in tenths)
xray_class_of(flux) ==
    IF flux >= 10000 * XrayUnitsPerE8
    THEN [letter |-> "X", tenths |-> OneDecimal(flux, 10000 * XrayUnitsPerE8)]
    ELSE IF flux >= 1000 * XrayUnitsPerE8
    THEN [letter |-> "M", tenths |-> OneDecimal(flux, 1000 * XrayUnitsPerE8)]
    ELSE IF flux >= 100 * XrayUnitsPerE8
    THEN [letter |-> "C", tenths |-> OneDecimal(flux, 100 * XrayUnitsPerE8)]
    ELSE IF flux >= 10 * XrayUnitsPerE8
    THEN [letter |-> "B", tenths |-> OneDecimal(flux, 10 * XrayUnitsPerE8)]
    ELSE [letter |-> "A", tenths |-> OneDecimal(flux, XrayUnitsPerE8)]

\* the X-ray block: latest = xray_data[-1]; flux = latest.get('flux')
process_xray(data, resp) ==
    IF resp.outcome = "ok" /\ Len(resp.json) > 0
    THEN LET latest == resp.json[Len(resp.json)]
         IN  IF "flux" \in DOMAIN latest /\ latest.flux # 0 /\ latest.flux > 0
             THEN Put(Put(data, "xray_flux", Number(latest.flux)),
                      "xray_class", Text(xray_class_of(latest.flux)))
             ELSE data
    ELSE data

\* A line of the aurora text is [parts |-> n, comment |-> c, parses |-> b,
\* power |-> v]: n parts after split(), c whether it starts with '#', b whether
\* float(parts[2]) succeeds and v the value it gives (GW)
line_has_power(line) ==
    /\ line.parts > 0
    /\ ~line.comment
    /\ line.parts >= 3
    /\ line.parses

\* the aurora block: the last line that yields a value
process_aurora(data, resp) ==
    IF resp.outcome = "ok"
    THEN LET lines == resp.json
             good == {i \in 1 .. Len(lines) : line_has_power(lines[i])}
         IN  IF good # {}
             THEN Put(data, "aurora_power", Number(lines[SetMax(good)].power))
             ELSE data
    ELSE data

---------------------------------------------------------------------------
(* fetch_space_weather_data: the derived values. *)

\* data['fof2'] = round(estimate_fof2_from_sfi(data['solar_flux']), 1)
derived_fof2(solar_flux) == Round1(estimate_fof2_from_sfi(solar_flux))

\* k_val = data['k_index'] if isinstance(data['k_index'], (int, float)) else 2.0
k_val_of(k_index) == IF IsNumber(k_index) THEN k_index.value ELSE 2

\* variant of muf_for_dx: the factor 2.0
muf_for_dx_factor_2(fof2) == fof2 * 2

\* variant of muf_for_dx: the factor 3.0
muf_for_dx_factor_3(fof2) == fof2 * 3

\* muf_dx = data['fof2'] * 4.0
muf_for_dx(fof2) == fof2 * 4

\* variant of overall_tier: the Poor test is made before the Fair test
overall_tier_poor_first(sfi, k_idx) ==
    IF sfi > 150 /\ k_idx < 3 THEN [emoji |-> "green", tier |-> "Excellent"]
    ELSE IF sfi > 120 /\ k_idx < 4 THEN [emoji |-> "green", tier |-> "Good"]
    ELSE IF sfi > 70 THEN [emoji |-> "orange", tier |-> "Poor"]
    ELSE IF sfi > 90 /\ k_idx < 5 THEN [emoji |-> "yellow", tier |-> "Fair"]
    ELSE [emoji |-> "red", tier |-> "Very Poor"]

\* the overall propagation assessment
overall_tier(sfi, k_idx) ==
    IF sfi > 150 /\ k_idx < 3 THEN [emoji |-> "green", tier |-> "Excellent"]
    ELSE IF sfi > 120 /\ k_idx < 4 THEN [emoji |-> "green", tier |-> "Good"]
    ELSE IF sfi > 90 /\ k_idx < 5 THEN [emoji |-> "yellow", tier |-> "Fair"]
    ELSE IF sfi > 70 THEN [emoji |-> "orange", tier |-> "Poor"]
    ELSE [emoji |-> "red", tier |-> "Very Poor"]

\* the locals of the derived-values block; hour_1 and hour_2 are what the two
\* reads of datetime.now(timezone.utc).hour return
derived_locals(data, hour_1, hour_2) ==
    LET solar_flux == data["solar_flux"].value
        fof2 == derived_fof2(solar_flux)
        k_val == k_val_of(data["k_index"])
        absorbed == calculate_d_layer_absorption(hour_1, solar_flux, k_val)
        muf_dx == muf_for_dx(fof2)
    IN  [fn |-> "fetch_space_weather_data",
         derived |-> TRUE,
         fof2 |-> fof2,
         k_val |-> k_val,
         absorption |-> absorbed.absorption,
         abs_desc |-> [emoji |-> absorbed.emoji, desc |-> absorbed.desc,
                       time_desc |-> absorbed.time_desc],
         absorption_call |-> [utc_hour |-> hour_1, solar_flux |-> solar_flux,
                              k_index |-> k_val],
         muf_dx |-> muf_dx,
         band_call |-> [fof2 |-> fof2, muf |-> muf_dx,
                        absorption |-> absorbed.absorption, k_index |-> k_val,
                        utc_hour |-> hour_2],
         best_call |-> [utc_hour |-> hour_2, fof2 |-> fof2]]

\* the derived-values block
with_derived(data, hour_1, hour_2) ==
    IF IsNumber(data["solar_flux"])
    THEN LET l == derived_locals(data, hour_1, hour_2)
             d1 == Put(data, "fof2", Number(l.fof2))
             d2 == Put(d1, "d_region_absorption", Text(l.abs_desc))
             d3 == Put(d2, "absorption_factor", Number(l.absorption))
             d4 == Put(d3, "muf_dx", Number(Round1(l.muf_dx)))
             d5 == Put(d4, "propagation_conditions",
                       Text(overall_tier(data["solar_flux"].value, l.k_val)))
             d6 == Put(d5, "band_conditions",
                       Dict(calculate_band_conditions(
                                l.band_call.fof2, l.band_call.muf,
                                l.band_call.absorption, l.band_call.k_index,
                                l.band_call.utc_hour)))
         IN  Put(d6, "best_bands_now",
                 Text(get_best_bands_now(l.best_call.utc_hour, l.best_call.fof2)))
    ELSE data

---------------------------------------------------------------------------
(* fetch_space_weather_data: the coroutine, one action per await. *)

FetchCall(resp) == [fn |-> "fetch_space_weather_data", resp |-> resp]

FetchLocals(data) == [fn |-> "fetch_space_weather_data", derived |-> FALSE, data |-> data]

\* the call: the dict is created and the solar-flux request is sent
FetchStart ==
    /\ pc = "idle"
    /\ pc' = "await_solar_flux"
    /\ UNCHANGED env
    /\ args' = [fn |-> "fetch_space_weather_data"]
    /\ locals' = FetchLocals(initial_data)
    /\ ret' = NoCall

RecvSolarFlux(responses) ==
    /\ pc = "await_solar_flux"
    /\ \E resp \in responses :
        /\ args' = FetchCall(resp)
        /\ locals' = FetchLocals(process_solar_flux(locals.data, resp))
    /\ pc' = "await_k_index"
    /\ UNCHANGED env
    /\ UNCHANGED ret

RecvKIndex(responses) ==
    /\ pc = "await_k_index"
    /\ \E resp \in responses :
        /\ args' = FetchCall(resp)
        /\ locals' = FetchLocals(process_k_index(locals.data, resp))
    /\ pc' = "await_scales"
    /\ UNCHANGED env
    /\ UNCHANGED ret

RecvScales(responses) ==
    /\ pc = "await_scales"
    /\ \E resp \in responses :
        /\ args' = FetchCall(resp)
        /\ locals' = FetchLocals(process_scales(locals.data, resp))
    /\ pc' = "await_xray"
    /\ UNCHANGED env
    /\ UNCHANGED ret

RecvXray(responses) ==
    /\ pc = "await_xray"
    /\ \E resp \in responses :
        /\ args' = FetchCall(resp)
        /\ locals' = FetchLocals(process_xray(locals.data, resp))
    /\ pc' = "await_aurora"
    /\ UNCHANGED env
    /\ UNCHANGED ret

\* the UTC hours two successive reads of the clock can return
ClockReads == {<<h, h>> : h \in 0 .. 23} \cup {<<h, (h + 1) % 24>> : h \in 0 .. 23}

\* the aurora response arrives; the derived values are computed and data returned
RecvAurora(responses) ==
    /\ pc = "await_aurora"
    /\ \E resp \in responses, clock \in ClockReads :
        LET data == process_aurora(locals.data, resp)
        IN  /\ args' = FetchCall(resp)
            /\ locals' = IF IsNumber(data["solar_flux"])
                         THEN derived_locals(data, clock[1], clock[2])
                         ELSE [fn |-> "fetch_space_weather_data", derived |-> FALSE]
            /\ ret' = with_derived(data, clock[1], clock[2])
    /\ pc' = "returned"
    /\ UNCHANGED env

(* The responses of the full specification: every shape of body the code       *)
(* distinguishes, with few values.                                             *)
Schedules == {"Noon", "Other"}

FluxEntries ==
    {[reporting_schedule |-> s, flux |-> f] : s \in Schedules, f \in {455, 1609}}
        \cup {[reporting_schedule |-> s] : s \in Schedules}

FluxResponses ==
    {HttpError, HttpStatus}
        \cup {HttpOk(json) : json \in UNION {[1 .. n -> FluxEntries] : n \in 0 .. MaxEntries}}

KResponses ==
    {HttpError, HttpStatus, HttpOk(<<>>), HttpOk(<<[time_tag |-> "t"]>>),
     HttpOk(<<[kp_index |-> 1], [kp_index |-> 3]>>)}

ScalesResponses ==
    {HttpError, HttpStatus, HttpOk([R |-> "0", S |-> "0", G |-> "1"])}

XrayResponses ==
    {HttpError, HttpStatus, HttpOk(<<>>), HttpOk(<<[energy |-> "0.1-0.8nm"]>>)}
        \cup {HttpOk(<<[flux |-> 77], [flux |-> f]>>) :
                 f \in {0 - 5, 0, 3, 30, 1000, 10000, 52000, 100000, 1000000,
                        2300000}}

AuroraLine(power) == [parts |-> 4, comment |-> FALSE, parses |-> TRUE, power |-> power]

AuroraResponses ==
    {HttpError,
     HttpOk(<<[parts |-> 3, comment |-> TRUE, parses |-> FALSE, power |-> 0],
              AuroraLine(12), AuroraLine(25),
              [parts |-> 2, comment |-> FALSE, parses |-> FALSE, power |-> 0],
              [parts |-> 0, comment |-> FALSE, parses |-> FALSE, power |-> 0]>>)}

FetchNext ==
    \/ FetchStart
    \/ RecvSolarFlux(FluxResponses)
    \/ RecvKIndex(KResponses)
    \/ RecvScales(ScalesResponses)
    \/ RecvXray(XrayResponses)
    \/ RecvAurora(AuroraResponses)
    \/ Return

SpecFetch == Init /\ [][FetchNext]_vars

(* The responses of the wide specification: every solar flux of Fluxes and     *)
(* every K-index of KIndexes, present or absent; the other feeds, which the    *)
(* derived values do not read, give one response each.                         *)
WideFluxResponses ==
    {HttpError}
        \cup {HttpOk(<<[reporting_schedule |-> "Noon", flux |-> 10 * f]>>) : f \in Fluxes}

WideKResponses == {HttpError} \cup {HttpOk(<<[kp_index |-> k]>>) : k \in KIndexes}

FetchWideNext ==
    \/ FetchStart
    \/ RecvSolarFlux(WideFluxResponses)
    \/ RecvKIndex(WideKResponses)
    \/ RecvScales({HttpStatus})
    \/ RecvXray({HttpOk(<<[flux |-> 52000]>>)})
    \/ RecvAurora({HttpError})
    \/ Return

SpecFetchWide == Init /\ [][FetchWideNext]_vars

---------------------------------------------------------------------------
(* Properties of fetch_space_weather_data. *)

FetchReturned == pc = "returned" /\ args.fn = "fetch_space_weather_data"

\* C9: whenever fetch_space_weather_data produces derived metrics, the maximum
\* usable frequency is exactly 4.0 times the critical frequency: the reported
\* muf_dx against the reported fof2, and the MUF passed to the band classifier
\* against the critical frequency passed to it.
C9_MufIsFourTimesFof2 ==
    FetchReturned =>
        /\ ("muf_dx" \in DOMAIN ret) <=> IsNumber(ret["solar_flux"])
        /\ ("muf_dx" \in DOMAIN ret) <=> locals.derived
        /\ locals.derived =>
              /\ IsNumber(ret["fof2"])
              /\ IsNumber(ret["muf_dx"])
              /\ ret["muf_dx"].value = 4 * ret["fof2"].value
              /\ locals.band_call.muf = 4 * locals.band_call.fof2
              /\ locals.band_call.fof2 = ret["fof2"].value

\* C9 witness: solar flux 150 has given fof2 8.6 MHz (7 x sqrt(1.5) = 8.573...)
\* and muf_dx 34.4 MHz, and the classifier was called with these
W9_Flux150Gives34400 ==
    /\ FetchReturned
    /\ locals.derived
    /\ ret["solar_flux"].value = 150
    /\ ret["fof2"].value = 8600
    /\ ret["muf_dx"].value = 34400
    /\ locals.band_call.muf = 34400

\* the tier of the returned assessment
ReportedTier == ret["propagation_conditions"].value.tier

\* C11: the overall propagation tier is the first match of sfi > 150 and K < 3
\* (Excellent), sfi > 120 and K < 4 (Good), sfi > 90 and K < 5 (Fair), sfi > 70
\* (Poor), otherwise Very Poor, of the reported solar flux and the K-index of the
\* calculation alone: the hour and the band table do not enter; (160, 2) is
\* Excellent, (100, 4) Fair and (60, 1) Very Poor.
C11_TierFirstMatch ==
    (FetchReturned /\ locals.derived) =>
        LET sfi == ret["solar_flux"].value
            K == locals.k_val
            excellent == sfi > 150 /\ K < 3
            good == sfi > 120 /\ K < 4
            fair == sfi > 90 /\ K < 5
            poor == sfi > 70
        IN  /\ excellent => ReportedTier = "Excellent"
            /\ (~excellent /\ good) => ReportedTier = "Good"
            /\ (~excellent /\ ~good /\ fair) => ReportedTier = "Fair"
            /\ (~excellent /\ ~good /\ ~fair /\ poor) => ReportedTier = "Poor"
            /\ (~excellent /\ ~good /\ ~fair /\ ~poor) => ReportedTier = "Very Poor"
            /\ (sfi = 160 /\ K = 2) => ReportedTier = "Excellent"
            /\ (sfi = 100 /\ K = 4) => ReportedTier = "Fair"
            /\ (sfi = 60 /\ K = 1) => ReportedTier = "Very Poor"

\* C11 witness: solar flux 100 with K-index 4 has been assessed Fair, at an hour
\* of the night and with a band closed
W11_Flux100K4IsFair ==
    /\ FetchReturned
    /\ locals.derived
    /\ ret["solar_flux"].value = 100
    /\ ret["k_index"] = Number(4)
    /\ ReportedTier = "Fair"
    /\ locals.absorption_call.utc_hour = 2
    /\ \E band \in BandNames : ret["band_conditions"].value[band].quality = "Closed"

\* C12: when the K-index is present the A-index is K-index^2 x 3.3 rounded to the
\* nearest integer (so 30 for K = 3); when the K-index is absent the A-index is
\* 'N/A'.
C12_AIndexIsRounded ==
    FetchReturned =>
        IF IsNumber(ret["k_index"])
        THEN LET K == ret["k_index"].value
             IN  /\ IsNumber(ret["a_index"])
                 /\ 2 * AbsVal(10 * ret["a_index"].value - K * K * 33) <= 10
                 /\ K = 3 => ret["a_index"].value = 30
        ELSE ret["a_index"] = NA

\* the lower bound of a class letter's decade, in 1e-10 W/m^2
DecadeLower ==
    [X |-> 1000000, M |-> 100000, C |-> 10000, B |-> 1000, A |-> 100]

\* class is the class of flux: the letter by the decade of the flux and the
\* magnitude flux / lower bound, to the nearest tenth
IsClassOf(class, flux) ==
    /\ class.kind = "str"
    /\ class.value.letter =
           (IF flux >= 1000000 THEN "X" ELSE IF flux >= 100000 THEN "M"
            ELSE IF flux >= 10000 THEN "C" ELSE IF flux >= 1000 THEN "B" ELSE "A")
    /\ LET lower == DecadeLower[class.value.letter]
       IN  2 * AbsVal(10 * flux - class.value.tenths * lower) <= lower

\* C13: the X-ray class is a function of the latest raw flux: 'N/A' when the flux
\* is absent or <= 0, otherwise X from 1e-4, M from 1e-5, C from 1e-6, B from 1e-7
\* and A below, with the magnitude flux / lower bound of the letter's decade to
\* one decimal.  Stated where the X-ray response has just been processed, and of
\* the returned record.
C13_XrayClassFromFlux ==
    /\ (pc = "await_aurora") =>
           LET resp == args.resp
               carries == /\ resp.outcome = "ok"
                          /\ Len(resp.json) > 0
                          /\ "flux" \in DOMAIN resp.json[Len(resp.json)]
               class == locals.data["xray_class"]
           IN  IF carries
               THEN LET flux == resp.json[Len(resp.json)].flux
                    IN  IF flux <= 0 THEN class = NA ELSE IsClassOf(class, flux)
               ELSE class = NA
    /\ FetchReturned =>
           \/ ret["xray_class"] = NA
           \/ /\ IsNumber(ret["xray_flux"])
              /\ ret["xray_flux"].value > 0
              /\ IsClassOf(ret["xray_class"], ret["xray_flux"].value)

\* C13 witness: a latest flux of exactly 1e-7 W/m^2 has been classed B1.0
W13_ExactlyAtDecade ==
    /\ pc = "await_aurora"
    /\ args.resp.outcome = "ok"
    /\ args.resp.json = <<[flux |-> 77], [flux |-> 1000]>>
    /\ locals.data["xray_class"] = Text([letter |-> "B", tenths |-> 10])

\* the response carries a K-index: a body whose latest record has 'kp_index'
CarriesKIndex(resp) ==
    /\ resp.outcome = "ok"
    /\ Len(resp.json) > 0
    /\ "kp_index" \in DOMAIN resp.json[Len(resp.json)]

\* the response carries a solar flux: the record the code reads (the most recent
\* Noon record, else the latest record) has 'flux'
CarriesSolarFlux(resp) ==
    /\ resp.outcome = "ok"
    /\ Len(resp.json) > 0
    /\ LET noon == {i \in 1 .. Len(resp.json) :
                       resp.json[i].reporting_schedule = "Noon"}
           read == IF noon # {} THEN SetMax(noon) ELSE Len(resp.json)
       IN  "flux" \in DOMAIN resp.json[read]

\* C14: when the solar flux is present and the K-index is absent, the reported
\* K-index and A-index stay 'N/A' (stated where the K-index response has just
\* been processed), and the absorption factor and category, the overall tier and
\* the band conditions of the returned record are computed with K = 2.
C14_KDefaultsToTwo ==
    /\ (pc = "await_scales" /\ IsNumber(locals.data["solar_flux"])
            /\ ~CarriesKIndex(args.resp)) =>
           /\ locals.data["k_index"] = NA
           /\ locals.data["a_index"] = NA
    /\ (FetchReturned /\ locals.derived /\ ret["k_index"] = NA) =>
           /\ ret["a_index"] = NA
           /\ locals.absorption_call.k_index = 2
           /\ locals.band_call.k_index = 2
           /\ ret["absorption_factor"] = Number(locals.absorption)
           /\ ret["d_region_absorption"] = Text(locals.abs_desc)
           /\ ReportedTier = overall_tier(ret["solar_flux"].value, 2).tier

\* C15: an absent upstream value is never turned into a number: a solar-flux
\* record without 'flux' leaves the solar flux 'N/A', and a K-index record without
\* 'kp_index' leaves the K-index and the A-index derived from it 'N/A' (each
\* stated where the response has just been processed).
C15_AbsentIsNeverANumber ==
    /\ (pc = "await_k_index" /\ ~CarriesSolarFlux(args.resp)) =>
           locals.data["solar_flux"] = NA
    /\ (pc = "await_scales" /\ ~CarriesKIndex(args.resp)) =>
           /\ locals.data["k_index"] = NA
           /\ locals.data["a_index"] = NA

\* the derived outputs of the record
DerivedFromFlux ==
    {"fof2", "muf_dx", "absorption_factor", "d_region_absorption",
     "propagation_conditions", "band_conditions", "best_bands_now"}

\* C16: when the solar flux is unavailable the returned record is complete: every
\* output derived from the flux is present and 'N/A', and the A-index and the
\* X-ray class are present, and 'N/A' when the K-index and the X-ray flux are.
C16_CompleteRecordOfMarkers ==
    (FetchReturned /\ ret["solar_flux"] = NA) =>
        /\ \A key \in DerivedFromFlux : key \in DOMAIN ret /\ ret[key] = NA
        /\ "a_index" \in DOMAIN ret
        /\ "xray_class" \in DOMAIN ret
        /\ ret["k_index"] = NA => ret["a_index"] = NA
        /\ ret["xray_flux"] = NA => ret["xray_class"] = NA

---------------------------------------------------------------------------
(* formatter.py: the five posts of a thread.  A text is modelled by what the   *)
(* code and the platforms read of it: which post it is, its length as len()    *)
(* counts it (code points) and its hashtags.  The length is the length of the  *)
(* fixed part of the f-string plus the lengths of the values put into it.      *)

\* Python's None
None == [kind |-> "None"]

\* a call either returns a value or raises an exception
Returned(value) == [outcome |-> "return", value |-> value]

Raised(exception) == [outcome |-> "raise", exception |-> exception]

RECURSIVE Digits(_)
Digits(n) == IF n < 10 THEN 1 ELSE 1 + Digits(n \div 10)

\* len(str(n)) of an int
len_of_int(n) == IF n < 0 THEN 1 + Digits(0 - n) ELSE Digits(n)

\* len(str(x)) of a float with one decimal, given in thousandths (kHz for MHz)
len_of_float(thousandths) == len_of_int(thousandths \div 1000) + 2

\* int(x) of the quotient n / d: truncation toward zero
Trunc(n, d) == IF n >= 0 THEN n \div d ELSE 0 - ((0 - n) \div d)

\* data.get(key, 'N/A')
Field(data, key) == IF key \in DOMAIN data THEN data[key] ELSE NA

\* the lengths of the values of the record as the f-strings print them
len_of_count(value) == IF IsNumber(value) THEN len_of_int(value.value) ELSE Len("N/A")

len_of_mhz(value) == IF IsNumber(value) THEN len_of_float(value.value) ELSE Len("N/A")

len_of_text(value) == IF value.kind = "str" THEN Len(value.value) ELSE Len("N/A")

\* an emoji of spaceweather.py, as the source file spells it
EmojiLen == 4

\* an emoji of formatter.py
SymbolLen == 1

\* the two hashtags every post ends with
Hashtags == <<"#SolarStormScout", "#HamRadio">>

PostText(post, len) == [post |-> post, len |-> len, hashtags |-> Hashtags]

\* variant of ensure_char_limit: a text over the limit is cut to the limit
ensure_char_limit_truncates(text, limit) ==
    IF text.len > limit THEN Returned([text EXCEPT !.len = limit]) ELSE Returned(text)

ensure_char_limit(text, limit) ==
    IF text.len > limit THEN Raised("ValueError") ELSE Returned(text)

\* the f-string of post 1 without its nine values
SolarIndicesFixed == 187

\* abs_pct: f"{int(absorption * 100)}%" for a float, else "N/A"
len_of_abs_pct(data) ==
    IF "absorption_factor" \in DOMAIN data /\ IsNumber(data["absorption_factor"])
    THEN len_of_int(Trunc(data["absorption_factor"].value * 100, AbsOne)) + Len("%")
    ELSE Len("N/A")

format_solar_indices_post(data, char_limit) ==
    ensure_char_limit(
        PostText("solar_indices",
                 SolarIndicesFixed
                     + len_of_count(Field(data, "solar_flux"))
                     + len_of_count(Field(data, "a_index"))
                     + len_of_count(Field(data, "k_index"))
                     + len_of_mhz(Field(data, "fof2"))
                     + len_of_mhz(Field(data, "muf_dx"))
                     + len_of_abs_pct(data)
                     + len_of_text(Field(data, "r_scale"))
                     + len_of_text(Field(data, "s_scale"))
                     + len_of_text(Field(data, "g_scale"))),
        char_limit)

\* the order in which post 2 lists the bands
BandOrder == <<"160m", "80m", "40m", "30m", "20m", "17m", "15m", "12m", "10m", "6m">>

\* f"{band_name}: {b['emoji']} {b['quality']}"
len_of_band_line(band_name, b) ==
    Len(band_name) + Len(": ") + EmojiLen + Len(" ") + Len(b.quality)

\* "\n".join(band_lines) of the first n bands of BandOrder
RECURSIVE len_of_bands_text(_, _)
len_of_bands_text(band_conditions, n) ==
    IF n = 0 THEN 0
    ELSE len_of_bands_text(band_conditions, n - 1)
             + (IF n > 1 THEN 1 ELSE 0)
             + len_of_band_line(BandOrder[n], band_conditions[BandOrder[n]])

\* the f-string of post 2 without the band lines, best_now and muf
BandConditionsFixed == 85

format_band_conditions_post(data, char_limit) ==
    LET bands_text == IF "band_conditions" \in DOMAIN data
                      THEN len_of_bands_text(data["band_conditions"].value,
                                             Len(BandOrder))
                      ELSE 0
    IN  ensure_char_limit(
            PostText("band_conditions",
                     BandConditionsFixed
                         + bands_text
                         + len_of_text(Field(data, "best_bands_now"))
                         + len_of_mhz(Field(data, "muf_dx"))),
            char_limit)

\* str(absorption): f"{emoji} {level} ({time_desc})" or 'N/A'
len_of_absorption(value) ==
    IF value.kind = "str"
    THEN EmojiLen + Len(" ") + Len(value.value.desc) + Len(" (")
             + Len(value.value.time_desc) + Len(")")
    ELSE Len("N/A")

\* the time-based guidance of post 3
time_note_of(hour) ==
    IF 10 <= hour /\ hour <= 16 THEN "Peak daytime"
    ELSE IF hour < 6 \/ hour > 20 THEN "Low nighttime"
    ELSE "Transitional"

\* the band recommendation of post 3: 'High' in str(absorption) is true of the
\* levels High and Very High
band_rec_of(value) ==
    IF value.kind = "str" /\ value.value.desc \in {"High", "Very High"}
    THEN "Try 80m/40m"
    ELSE IF value.kind = "str" /\ value.value.desc = "Moderate" THEN "Mid bands OK"
    ELSE "All bands good"

\* the f-string of post 3 with its helper and the time, without absorption,
\* time_note and band_rec
AbsorptionFixed(char_limit) == IF char_limit = 300 THEN 132 ELSE 235

\* now is what datetime.utcnow() returns: its hour
format_absorption_post(data, char_limit, hour) ==
    LET absorption == Field(data, "d_region_absorption")
    IN  ensure_char_limit(
            PostText("absorption",
                     AbsorptionFixed(char_limit)
                         + len_of_absorption(absorption)
                         + Len(time_note_of(hour))
                         + Len(band_rec_of(absorption))),
            char_limit)

\* the aurora description: its symbol (FALSE: none) and the three wordings
aurora_desc_of(aurora_power, k_idx) ==
    IF IsNumber(aurora_power) /\ IsNumber(k_idx)
    THEN IF k_idx.value >= 7 \/ aurora_power.value >= 100
         THEN [symbol |-> TRUE, desc |-> "STRONG", visibility |-> "Mid-lat visible",
               radio |-> "VHF aurora scatter!"]
         ELSE IF k_idx.value >= 5 \/ aurora_power.value >= 50
         THEN [symbol |-> TRUE, desc |-> "MODERATE", visibility |-> "High-lat good",
               radio |-> "2m/6m auroral-E"]
         ELSE IF k_idx.value >= 4 \/ aurora_power.value >= 20
         THEN [symbol |-> TRUE, desc |-> "MINOR", visibility |-> "Polar regions",
               radio |-> "VHF enhanced"]
         ELSE [symbol |-> TRUE, desc |-> "QUIET", visibility |-> "Minimal",
               radio |-> "Normal VHF"]
    ELSE [symbol |-> FALSE, desc |-> "N/A", visibility |-> "Data N/A", radio |-> ""]

\* a symbol, a space and the wording, or the wording alone
len_of_marked(marked) ==
    (IF marked.symbol THEN SymbolLen + Len(" ") ELSE 0) + Len(marked.desc)

\* power_str: f"{aurora_power} GW" of a float (whole GW), else aurora_power
len_of_power_str(aurora_power) ==
    IF IsNumber(aurora_power)
    THEN len_of_float(aurora_power.value * 1000) + Len(" GW")
    ELSE Len("N/A")

\* the f-string of post 4 with its helper, without its five values
AuroraFixed(char_limit) == IF char_limit = 300 THEN 137 ELSE 210

format_aurora_post(data, char_limit) ==
    LET aurora_power == Field(data, "aurora_power")
        k_idx == Field(data, "k_index")
        aurora == aurora_desc_of(aurora_power, k_idx)
    IN  ensure_char_limit(
            PostText("aurora",
                     AuroraFixed(char_limit)
                         + len_of_marked(aurora)
                         + len_of_power_str(aurora_power)
                         + len_of_count(k_idx)
                         + Len(aurora.visibility)
                         + Len(aurora.radio)),
            char_limit)

\* the impact assessment of post 5, by the class letter
impact_of(xray_class) ==
    IF xray_class = NA
    THEN [symbol |-> FALSE, desc |-> "Data N/A", advice |-> ""]
    ELSE IF xray_class.value.letter = "X"
    THEN [symbol |-> TRUE, desc |-> "MAJOR FLARE", advice |-> "HF blackouts likely!"]
    ELSE IF xray_class.value.letter = "M"
    THEN [symbol |-> TRUE, desc |-> "MEDIUM FLARE", advice |-> "Minor HF disruption"]
    ELSE IF xray_class.value.letter = "C"
    THEN [symbol |-> TRUE, desc |-> "SMALL FLARE", advice |-> "Minimal impact"]
    ELSE [symbol |-> TRUE, desc |-> "QUIET", advice |-> "Background levels"]

\* f"{letter}{magnitude:.1f}" or 'N/A'
len_of_xray_class(xray_class) ==
    IF xray_class = NA THEN Len("N/A")
    ELSE Len(xray_class.value.letter) + len_of_float(xray_class.value.tenths * 100)

\* the f-string of post 5 with its helper and the time, without class, impact
\* and advice
XrayFixed(char_limit) == IF char_limit = 300 THEN 163 ELSE 303

format_xray_post(data, char_limit) ==
    LET xray_class == Field(data, "xray_class")
        impact == impact_of(xray_class)
    IN  ensure_char_limit(
            PostText("xray",
                     XrayFixed(char_limit)
                         + len_of_xray_class(xray_class)
                         + len_of_marked(impact)
                         + Len(impact.advice)),
            char_limit)

\* Image URLs from NOAA
DRAP_IMAGE_URL ==
    "https://services.swpc.noaa.gov/images/animations/d-rap/global/d-rap/latest.png"

AURORA_IMAGE_URL ==
    "https://services.swpc.noaa.gov/images/animations/ovation/north/latest.jpg"

\* a post of the thread
Post(text, image_url, alt_text) ==
    [text |-> text, image_url |-> image_url, alt_text |-> alt_text]

\* variant of format_thread_posts: the aurora post is appended before the
\* absorption post
format_thread_posts_aurora_first(data, platform, hour) ==
    LET char_limit == IF platform = "bluesky" THEN 300 ELSE 500
        texts == <<format_solar_indices_post(data, char_limit),
                   format_band_conditions_post(data, char_limit),
                   format_aurora_post(data, char_limit),
                   format_absorption_post(data, char_limit, hour),
                   format_xray_post(data, char_limit)>>
        raising == {n \in 1 .. 5 : texts[n].outcome = "raise"}
    IN  IF raising # {}
        THEN texts[CHOOSE n \in raising : \A other \in raising : n <= other]
        ELSE Returned(
                 <<Post(texts[1].value, None, ""),
                   Post(texts[2].value, None, ""),
                   Post(texts[3].value, Text(AURORA_IMAGE_URL),
                        "Aurora oval forecast showing auroral activity in northern hemisphere"),
                   Post(texts[4].value, Text(DRAP_IMAGE_URL),
                        "D-Region Absorption Prediction map showing HF radio wave absorption"),
                   Post(texts[5].value, Text("GENERATE_CHART"),
                        "GOES Solar X-Ray Flux chart for past 6 hours")>>)

\* format_thread_posts(data, platform): the five posts are formatted in order and
\* the first one over the limit raises; hour is what datetime.utcnow() returns
\* while post 3 is formatted
format_thread_posts(data, platform, hour) ==
    LET char_limit == IF platform = "bluesky" THEN 300 ELSE 500
        texts == <<format_solar_indices_post(data, char_limit),
                   format_band_conditions_post(data, char_limit),
                   format_absorption_post(data, char_limit, hour),
                   format_aurora_post(data, char_limit),
                   format_xray_post(data, char_limit)>>
        raising == {n \in 1 .. 5 : texts[n].outcome = "raise"}
    IN  IF raising # {}
        THEN texts[CHOOSE n \in raising : \A other \in raising : n <= other]
        ELSE Returned(
                 <<Post(texts[1].value, None, ""),
                   Post(texts[2].value, None, ""),
                   Post(texts[3].value, Text(DRAP_IMAGE_URL),
                        "D-Region Absorption Prediction map showing HF radio wave absorption"),
                   Post(texts[4].value, Text(AURORA_IMAGE_URL),
                        "Aurora oval forecast showing auroral activity in northern hemisphere"),
                   Post(texts[5].value, Text("GENERATE_CHART"),
                        "GOES Solar X-Ray Flux chart for past 6 hours")>>)

\* fetch_space_weather_data as one function of its five responses and its two
\* clock reads
fetch_result(flux, k, scales, xray, aurora, clock) ==
    with_derived(
        process_aurora(
            process_xray(
                process_scales(
                    process_k_index(process_solar_flux(initial_data, flux), k),
                    scales),
                xray),
            aurora),
        clock[1], clock[2])

\* a Scale string of 100 characters
LongScale ==
    "0123456789012345678901234567890123456789012345678901234567890123456789012345678901234567890123456789"

(* The records the formatter is given: what fetch_space_weather_data returns  *)
(* for a few responses of each feed, at night and at noon.                    *)
FormatFluxResponses ==
    {HttpError} \cup {HttpOk(<<[reporting_schedule |-> "Noon", flux |-> f]>>) :
                         f \in {680, 1500, 2500}}

FormatKResponses == {HttpError, HttpOk(<<[kp_index |-> 3]>>), HttpOk(<<[kp_index |-> 7]>>)}

FormatScalesResponses ==
    {HttpError, HttpStatus, HttpOk([R |-> "0", S |-> "0", G |-> "1"]),
     HttpOk([R |-> LongScale, S |-> "0", G |-> "1"]),
     HttpOk([R |-> LongScale, S |-> LongScale, G |-> LongScale])}

FormatXrayResponses ==
    {HttpError, HttpOk(<<[flux |-> 52000]>>), HttpOk(<<[flux |-> 23000000]>>)}

FormatAuroraResponses == {HttpError, HttpOk(<<AuroraLine(12), AuroraLine(125)>>)}

FormatData ==
    {fetch_result(flux, k, scales, xray, aurora, <<hour, hour>>) :
        flux \in FormatFluxResponses, k \in FormatKResponses,
        scales \in FormatScalesResponses, xray \in FormatXrayResponses,
        aurora \in FormatAuroraResponses, hour \in {2, 12}}

FormatHours == {3, 12, 19}

FormatPlatforms == {"bluesky", "mastodon"}

CallFormatThreadPosts ==
    /\ pc = "idle"
    /\ \E data \in FormatData, platform \in FormatPlatforms, hour \in FormatHours :
        /\ args' = [fn |-> "format_thread_posts", data |-> data,
                    platform |-> platform]
        /\ locals' = [fn |-> "format_thread_posts", hour |-> hour]
        /\ ret' = format_thread_posts(data, platform, hour)
    /\ pc' = "returned"
    /\ UNCHANGED env

SpecFormat == Init /\ [][CallFormatThreadPosts \/ Return]_vars

---------------------------------------------------------------------------
(* Properties of format_thread_posts. *)

FormatReturned == pc = "returned" /\ args.fn = "format_thread_posts"

---------------------------------------------------------------------------
(* social.py: post_thread of the two posters.  A step is one iteration of the *)
(* loop over the posts: the image is generated or downloaded (both return     *)
(* bytes or None), uploaded, and the post is sent.  The platform gives each    *)
(* post it accepts a fresh identifier.                                         *)

\* the posts published in all, on both platforms, over the calls of one behaviour
MaxTimeline == 6

\* the identifier the platform gives its next post
next_id(platform) == Len(timeline[platform]) + 1

\* models.ComAtprotoRepoStrongRef.Main(cid=post.cid, uri=post.uri)
StrongRef(post) == [cid |-> post, uri |-> post]

\* variant of next_reply_to: the root is the post just sent
next_reply_to_root_is_parent(reply_to, post) ==
    [parent |-> StrongRef(post), root |-> StrongRef(post)]

\* models.AppBskyFeedPost.ReplyRef after a post: the parent is the post just
\* sent, the root the root of the thread
next_reply_to(reply_to, post) ==
    [parent |-> StrongRef(post),
     root |-> IF reply_to = None THEN StrongRef(post) ELSE reply_to.root]

\* variant of attached: an upload that raised still attaches the image
attached_despite_failed_upload(post_data, img_data, upload) ==
    IF post_data.image_url # None /\ img_data = "bytes"
    THEN [alt |-> post_data.alt_text]
    ELSE None

\* the image of a post as sent: None without image_url, when no image data was
\* obtained, or when the upload raised
attached(post_data, img_data, upload) ==
    IF post_data.image_url # None /\ img_data = "bytes" /\ upload = "ok"
    THEN [alt |-> post_data.alt_text]
    ELSE None

\* the locals of post_thread before its first iteration: img_data is not bound
\* yet, no upload was tried and no exception e was caught
PostThreadLocals(platform, sent, reply_to) ==
    [fn |-> "post_thread", platform |-> platform, sent |-> sent,
     reply_to |-> reply_to, img_data |-> "unbound", upload |-> "not_tried",
     e |-> "unbound"]

\* the locals after the image of post_data was handled: img_data is bound only
\* for a post with an image_url, the upload is tried only with image data
ImageHandled(thread_locals, post_data, img_data, upload) ==
    IF post_data.image_url = None
    THEN [thread_locals EXCEPT !.upload = "not_tried"]
    ELSE [thread_locals EXCEPT !.img_data = img_data,
                               !.upload = IF img_data = "bytes" THEN upload
                                          ELSE "not_tried"]

\* post_thread is called: not authenticated returns False, an empty list True
CallPostThread(threads) ==
    /\ pc = "idle"
    /\ \E platform \in Platforms, posts \in threads, authenticated \in BOOLEAN :
        /\ Len(timeline["Bluesky"]) + Len(timeline["Mastodon"]) + Len(posts)
               <= MaxTimeline
        /\ args' = [fn |-> "post_thread", platform |-> platform, posts |-> posts,
                    authenticated |-> authenticated]
        /\ locals' = PostThreadLocals(platform, 0, None)
        /\ IF ~authenticated THEN pc' = "returned" /\ ret' = FALSE
           ELSE IF posts = <<>> THEN pc' = "returned" /\ ret' = TRUE
           ELSE pc' = "posting" /\ ret' = NoCall
    /\ UNCHANGED env

\* BlueskyPoster.post_thread: one iteration; send_post raising ends the call
BlueskySendPost ==
    /\ pc = "posting"
    /\ args.platform = "Bluesky"
    /\ \E img_data \in {"bytes", "none"}, upload \in {"ok", "raise"},
          send \in {"ok", "raise"} :
        LET post_data == args.posts[locals.sent + 1]
            post == next_id("Bluesky")
        IN  IF send = "raise"
            THEN /\ pc' = "returned"
                 /\ ret' = FALSE
                 /\ locals' = [ImageHandled(locals, post_data, img_data, upload)
                                   EXCEPT !.e = "send_post"]
                 /\ UNCHANGED timeline
            ELSE /\ timeline' = [timeline EXCEPT !["Bluesky"] =
                                    Append(@, [post |-> StrongRef(post),
                                               text |-> post_data.text,
                                               reply_to |-> locals.reply_to,
                                               embed |-> attached(post_data, img_data,
                                                                  upload)])]
                 /\ locals' = [ImageHandled(locals, post_data, img_data, upload)
                                   EXCEPT !.sent = locals.sent + 1,
                                          !.reply_to = next_reply_to(locals.reply_to,
                                                                     post)]
                 /\ IF locals.sent + 1 = Len(args.posts)
                    THEN pc' = "returned" /\ ret' = TRUE
                    ELSE pc' = "posting" /\ ret' = NoCall
    /\ UNCHANGED <<args, files, now>>

\* MastodonPoster.post_thread: one iteration; status_post raising ends the call
MastodonSendPost ==
    /\ pc = "posting"
    /\ args.platform = "Mastodon"
    /\ \E img_data \in {"bytes", "none"}, upload \in {"ok", "raise"},
          send \in {"ok", "raise"} :
        LET post_data == args.posts[locals.sent + 1]
            status == Number(next_id("Mastodon"))
        IN  IF send = "raise"
            THEN /\ pc' = "returned"
                 /\ ret' = FALSE
                 /\ locals' = [ImageHandled(locals, post_data, img_data, upload)
                                   EXCEPT !.e = "status_post"]
                 /\ UNCHANGED timeline
            ELSE /\ timeline' = [timeline EXCEPT !["Mastodon"] =
                                    Append(@, [id |-> status,
                                               text |-> post_data.text,
                                               in_reply_to_id |-> locals.reply_to,
                                               media |-> attached(post_data, img_data,
                                                                  upload)])]
                 /\ locals' = [ImageHandled(locals, post_data, img_data, upload)
                                   EXCEPT !.sent = locals.sent + 1,
                                          !.reply_to = status]
                 /\ IF locals.sent + 1 = Len(args.posts)
                    THEN pc' = "returned" /\ ret' = TRUE
                    ELSE pc' = "posting" /\ ret' = NoCall
    /\ UNCHANGED <<args, files, now>>

(* The lists post_thread is given: the thread of a record with every feed    *)
(* present, formatted for the platform, and every prefix of it.               *)
ThreadData ==
    fetch_result(HttpOk(<<[reporting_schedule |-> "Noon", flux |-> 1500]>>),
                 HttpOk(<<[kp_index |-> 3]>>),
                 HttpOk([R |-> "0", S |-> "0", G |-> "1"]),
                 HttpOk(<<[flux |-> 52000]>>),
                 HttpOk(<<AuroraLine(12)>>), <<12, 12>>)

Threads ==
    {SubSeq(format_thread_posts(ThreadData, platform, 12).value, 1, n) :
        platform \in FormatPlatforms, n \in 0 .. 5}

PostThreadNext ==
    \/ CallPostThread(Threads)
    \/ BlueskySendPost
    \/ MastodonSendPost
    \/ Return

SpecPostThread == Init /\ [][PostThreadNext]_vars

---------------------------------------------------------------------------
(* Properties of post_thread. *)

InPostThread == pc \in {"posting", "returned"} /\ args.fn = "post_thread"

\* the n-th post this call has published
Published(n) ==
    LET sent == timeline[args.platform]
    IN  sent[Len(sent) - locals.sent + n]

\* what identifies a published post, and the post it was sent in reply to
RefOf(entry) == IF args.platform = "Bluesky" THEN entry.post ELSE entry.id

ParentOf(entry) ==
    IF args.platform = "Bluesky"
    THEN IF entry.reply_to = None THEN None ELSE entry.reply_to.parent
    ELSE entry.in_reply_to_id

\* C17: post_thread publishes the posts in list order as one reply chain: the
\* first post is sent with no reply reference, every later post as a reply to the
\* post published immediately before it, and on Bluesky the root reference of
\* every reply is the first post of the thread.
C17_ReplyChainInListOrder ==
    InPostThread =>
        /\ locals.sent <= Len(args.posts)
        /\ locals.sent <= Len(timeline[args.platform])
        /\ \A n \in 1 .. locals.sent :
              /\ Published(n).text = args.posts[n].text
              /\ n = 1 => ParentOf(Published(n)) = None
              /\ n > 1 => ParentOf(Published(n)) = RefOf(Published(n - 1))
              /\ (n > 1 /\ args.platform = "Bluesky") =>
                     Published(n).reply_to.root = RefOf(Published(1))
        /\ (pc = "returned" /\ ret = TRUE) => locals.sent = Len(args.posts)

\* C17 witness: a thread of five posts has been published on Bluesky after an
\* earlier post, and the fifth post names the fourth as parent and the first of
\* the thread, not of the timeline, as root
W17_FiveChainedAfterEarlierPost ==
    /\ pc = "returned"
    /\ args.fn = "post_thread"
    /\ args.platform = "Bluesky"
    /\ ret = TRUE
    /\ locals.sent = 5
    /\ Len(timeline["Bluesky"]) = 6
    /\ timeline["Bluesky"][6].reply_to =
           [parent |-> StrongRef(5), root |-> StrongRef(2)]
    /\ timeline["Bluesky"][2].reply_to = None

---------------------------------------------------------------------------
(* main.py: one invocation of main, and SocialMediaManager.post_to_all.  The  *)
(* clock counts minutes; a tracking file holds the time it was written at.     *)

MIN_INTERVAL_MINUTES == 30

HAMRADIO_INTERVAL_HOURS == 24

\* a tracking file written at clock time t
FileAt(t) == [exists |-> TRUE, readable |-> TRUE, time |-> t]

\* a tracking file whose read_text() or float() raises
Unreadable == [exists |-> TRUE, readable |-> FALSE]

\* True if OK to post, False if too soon
check_rate_limit(last_run_file, clock) ==
    IF ~last_run_file.exists THEN TRUE
    ELSE IF ~last_run_file.readable THEN TRUE
    ELSE ~(clock - last_run_file.time < MIN_INTERVAL_MINUTES)

\* True if #HamRadio should be included
should_include_hamradio(last_hamradio_file, clock) ==
    IF ~last_hamradio_file.exists THEN TRUE
    ELSE IF ~last_hamradio_file.readable THEN TRUE
    ELSE clock - last_hamradio_file.time >= HAMRADIO_INTERVAL_HOURS * 60

\* record_run_time(): write is "ok", or "raise" when mkdir or write_text raises
record_run_time(tracking, clock, write) ==
    IF write = "ok" THEN [tracking EXCEPT !.last_run = FileAt(clock)] ELSE tracking

\* record_hamradio_usage()
record_hamradio_usage(tracking, clock, write) ==
    IF write = "ok" THEN [tracking EXCEPT !.last_hamradio = FileAt(clock)]
    ELSE tracking

\* The configuration of a platform: not enabled, enabled with an incomplete
\* configuration, enabled and complete but failing to authenticate, or working
ConfigStates == {"disabled", "incomplete", "auth_fails", "ok"}

\* Config.validate_config(): some enabled platform has a complete configuration
validate_config(config) ==
    \E platform \in Platforms : config[platform] \in {"auth_fails", "ok"}

\* social.platforms after add_bluesky and add_mastodon: the authenticated ones
platforms_added(config) ==
    SelectSeq(<<"Bluesky", "Mastodon">>, LAMBDA platform : config[platform] = "ok")

\* datetime.utcnow().hour
utc_hour_of(clock) == (clock \div 60) % 24

\* the positional parameters of format_thread_posts(data, platform)
format_thread_posts_parameters == 2

\* a call of format_thread_posts with the given positional arguments: more
\* arguments than parameters raise TypeError
call_format_thread_posts(positional, hour) ==
    IF Len(positional) > format_thread_posts_parameters THEN Raised("TypeError")
    ELSE format_thread_posts(positional[1], positional[2], hour)

\* post_to_all from the j-th platform on, up to its next await: a platform whose
\* posts cannot be formatted is reported False; for the first platform whose
\* posts are formatted post_to_all awaits poster.post_thread(posts, session)
RECURSIVE post_to_all(_, _, _, _, _, _)
post_to_all(platforms, j, results, data, include_hamradio, hour) ==
    IF j > Len(platforms) THEN [awaits |-> FALSE, results |-> results]
    ELSE LET platform_name == platforms[j]
             platform == IF platform_name = "Bluesky" THEN "bluesky" ELSE "mastodon"
             posts == call_format_thread_posts(<<data, platform, include_hamradio>>,
                                               hour)
         IN  IF posts.outcome = "raise"
             THEN post_to_all(platforms, j + 1, (platform_name :> FALSE) @@ results,
                              data, include_hamradio, hour)
             ELSE [awaits |-> TRUE, results |-> results, j |-> j,
                   posts |-> posts.value]

\* variant of success_count: every reported platform counts
success_count_counts_all(results) == Cardinality(DOMAIN results)

\* sum(1 for v in results.values() if v)
success_count(results) == Cardinality({name \in DOMAIN results : results[name]})

\* variant of missing_fields: xray_class is not a critical field
missing_fields_without_xray(data) ==
    {field \in {"solar_flux", "k_index"} : Field(data, field) = NA}

\* the critical fields that are 'N/A'
missing_fields(data) ==
    {field \in {"solar_flux", "k_index", "xray_class"} : Field(data, field) = NA}

\* the locals of main; stage is the step main has reached or stopped at
MainLocals(stage, platforms) == [fn |-> "main", stage |-> stage, platforms |-> platforms]

\* the locals of main once the data is fetched
WithData(main_locals, data) == [data |-> data] @@ main_locals

\* the locals of main once post_to_all has returned
WithResults(main_locals, include_hamradio, results) ==
    [include_hamradio |-> include_hamradio, results |-> results] @@ main_locals

\* sys.exit(code), or the end of main (code 0)
Exit(code, main_locals) ==
    /\ pc' = "returned"
    /\ ret' = [exit_code |-> code]
    /\ locals' = main_locals

\* main up to its first await: the rate limit, the configuration, the platforms
MainStart ==
    /\ pc = "idle"
    /\ args' = [fn |-> "main"]
    /\ \E config \in [Platforms -> ConfigStates] :
        LET platforms == platforms_added(config)
        IN  IF ~check_rate_limit(files.last_run, now)
            THEN Exit(1, MainLocals("rate_limit", <<>>))
            ELSE IF ~validate_config(config)
            THEN Exit(1, MainLocals("validate_config", <<>>))
            ELSE IF Len(platforms) = 0
            THEN Exit(1, MainLocals("no_platforms", platforms))
            ELSE /\ pc' = "await_fetch"
                 /\ ret' = NoCall
                 /\ locals' = MainLocals("fetch", platforms)
    /\ UNCHANGED env

\* fetch_space_weather_data() has returned or raised: the critical fields are
\* validated, post_to_all runs up to its first await and, when it returns without
\* awaiting, main counts the successes, records the run and ends
MainFetched(outcomes) ==
    /\ pc = "await_fetch"
    /\ \E fetched \in outcomes, write_run \in {"ok", "raise"},
          write_hamradio \in {"ok", "raise"} :
        IF fetched.outcome = "raise"
        THEN /\ Exit(1, MainLocals("fetch_error", locals.platforms))
             /\ UNCHANGED <<args, env>>
        ELSE IF missing_fields(fetched.value) # {}
        THEN /\ Exit(1, WithData(MainLocals("missing_fields", locals.platforms),
                                 fetched.value))
             /\ UNCHANGED <<args, env>>
        ELSE LET data == fetched.value
                 include_hamradio == should_include_hamradio(files.last_hamradio, now)
                 posting == post_to_all(locals.platforms, 1, <<>>, data,
                                        include_hamradio, utc_hour_of(now))
                 posted(stage) ==
                     WithResults(WithData(MainLocals(stage, locals.platforms), data),
                                 include_hamradio, posting.results)
             IN  IF posting.awaits
                 THEN /\ pc' = "posting"
                      /\ args' = [fn |-> "post_thread",
                                  platform |-> locals.platforms[posting.j],
                                  posts |-> posting.posts, authenticated |-> TRUE,
                                  caller |-> posted("post_to_all")]
                      /\ locals' = PostThreadLocals(locals.platforms[posting.j], 0,
                                                    None)
                      /\ ret' = NoCall
                      /\ UNCHANGED env
                 ELSE IF success_count(posting.results) = 0
                 THEN /\ Exit(1, posted("no_success"))
                      /\ UNCHANGED <<args, env>>
                 ELSE /\ Exit(0, posted("completed"))
                      /\ files' =
                             IF include_hamradio
                             THEN record_hamradio_usage(
                                      record_run_time(files, now, write_run), now,
                                      write_hamradio)
                             ELSE record_run_time(files, now, write_run)
                      /\ UNCHANGED <<args, timeline, now>>

\* the longest time the clock is followed, in minutes
MaxNow == 31

\* time passes, while no invocation runs and while main awaits the fetch
Tick ==
    /\ pc \in {"idle", "await_fetch"}
    /\ \E minutes \in {1, 29} :
        /\ now + minutes <= MaxNow
        /\ now' = now + minutes
    /\ UNCHANGED <<pc, args, locals, ret, timeline, files>>

(* What main finds: the tracking files as earlier runs may have left them    *)
(* (written 1411 minutes before the clock starts, written as it starts,       *)
(* unreadable, or not there), and the records of a fetch with the critical    *)
(* feeds present or failed.                                                    *)
MainInit ==
    /\ pc = "idle"
    /\ args = NoCall
    /\ locals = NoCall
    /\ ret = NoCall
    /\ timeline = [platform \in Platforms |-> <<>>]
    /\ files \in [last_run : {NoFile, Unreadable, FileAt(0)},
                  last_hamradio : {NoFile, Unreadable, FileAt(0), FileAt(0 - 1411)}]
    /\ now = 0

MainData ==
    {fetch_result(flux, k, HttpOk([R |-> "0", S |-> "0", G |-> "1"]), xray,
                  HttpOk(<<AuroraLine(12)>>), <<12, 12>>) :
        flux \in {HttpError, HttpOk(<<[reporting_schedule |-> "Noon", flux |-> 1500]>>)},
        k \in {HttpError, HttpOk(<<[kp_index |-> 3]>>)},
        xray \in {HttpError, HttpOk(<<[flux |-> 52000]>>)}}

FetchOutcomes == {Raised("Exception")} \cup {Returned(data) : data \in MainData}

MainNext ==
    \/ MainStart
    \/ MainFetched(FetchOutcomes)
    \/ Tick
    \/ Return

SpecMain == MainInit /\ [][MainNext]_vars

---------------------------------------------------------------------------
(* Properties of main. *)

MainReturned == pc = "returned" /\ args.fn = "main"

\* No invocation of main reaches post_thread, publishes a post or ends with
\* exit code 0: format_thread_posts is called with one positional argument more
\* than it has parameters.
MainNeverPublishes ==
    /\ pc # "posting"
    /\ \A platform \in Platforms : timeline[platform] = <<>>
    /\ MainReturned => ret.exit_code = 1

\* No invocation of main writes a tracking file.
MainNeverRecords == [][files' = files]_vars

\* C20: when at least one platform is configured and authenticated and the
\* fetched data is complete (and no send fails), post_to_all formats the thread,
\* has it posted and reports True for the platform, and main records the run and
\* ends successfully instead of exiting with failure.
C20_CompleteRunSucceeds ==
    (/\ MainReturned
     /\ Len(locals.platforms) > 0
     /\ "data" \in DOMAIN locals
     /\ missing_fields(locals.data) = {}) =>
        /\ ret.exit_code = 0
        /\ \A n \in 1 .. Len(locals.platforms) :
              /\ locals.platforms[n] \in DOMAIN locals.results
              /\ locals.results[locals.platforms[n]]
              /\ Len(timeline[locals.platforms[n]]) = 5
        /\ files.last_run = FileAt(now)

---------------------------------------------------------------------------
(* The hashtags of a thread.  format_thread_posts is called with two         *)
(* positional arguments (demo.py:92, demo.py:102) and, by post_to_all, with   *)
(* include_hamradio as a third (social.py:392); include_hamradio is what      *)
(* should_include_hamradio() gives for the tracking file and the clock.       *)

\* the positional arguments of the two calls of format_thread_posts
ThreadCalls(data, platform, include_hamradio) ==
    {<<data, platform>>, <<data, platform, include_hamradio>>}

FormatThreadForRun ==
    /\ pc = "idle"
    /\ \E data \in MainData, platform \in FormatPlatforms :
        LET include_hamradio == should_include_hamradio(files.last_hamradio, now)
        IN  \E positional \in ThreadCalls(data, platform, include_hamradio) :
              /\ args' = [fn |-> "format_thread_posts", positional |-> positional,
                          include_hamradio |-> include_hamradio]
              /\ locals' = [fn |-> "format_thread_posts", hour |-> utc_hour_of(now)]
              /\ ret' = call_format_thread_posts(positional, utc_hour_of(now))
    /\ pc' = "returned"
    /\ UNCHANGED env

SpecHashtag == MainInit /\ [][FormatThreadForRun \/ Tick \/ Return]_vars

\* the posts of the thread a call of format_thread_posts has returned
ThreadReturned ==
    IF FormatReturned /\ ret.outcome = "return" THEN ret.value ELSE <<>>

ContainsHamRadio(post) ==
    \E n \in 1 .. Len(post.text.hashtags) : post.text.hashtags[n] = "#HamRadio"

\* C21: a post of a formatted thread contains #HamRadio only when
\* should_include_hamradio gives True (no recorded use in the preceding 24
\* hours); when include_hamradio is False no post of the thread contains it.
C21_HamRadioOncePerDay ==
    \A n \in 1 .. Len(ThreadReturned) :
        ContainsHamRadio(ThreadReturned[n]) => args.include_hamradio

---------------------------------------------------------------------------
(* Properties of main: the tracking files and the critical fields. *)

\* some platform reported a successful thread
SomeSuccess(main_locals) ==
    /\ "results" \in DOMAIN main_locals
    /\ \E name \in DOMAIN main_locals.results : main_locals.results[name]

\* C22: a tracking file is written only by a step of main that ends an
\* invocation in which some platform reported a successful thread, and the
\* #HamRadio file only when #HamRadio was included; an invocation that exits
\* with failure (rate limit, configuration, no platform, missing data, fetch
\* error, every platform failed) leaves both tracking files as they were.
C22_RecordedOnlyOnSuccess ==
    [][/\ (files' # files) =>
              /\ pc' = "returned" /\ args'.fn = "main" /\ ret'.exit_code = 0
              /\ SomeSuccess(locals')
       /\ (files'.last_hamradio # files.last_hamradio) => locals'.include_hamradio
       /\ (pc' = "returned" /\ args'.fn = "main" /\ ret'.exit_code = 1) =>
              files' = files]_vars

\* C22 witness: an invocation that passed the rate limit 30 minutes after the
\* recorded run has ended with every platform failed, and .last_run still
\* holds the earlier time
W22_AllFailedLeavesLastRun ==
    /\ MainReturned
    /\ locals.stage = "no_success"
    /\ locals.results = [name \in {"Bluesky", "Mastodon"} |-> FALSE]
    /\ files.last_run = FileAt(0)
    /\ files.last_hamradio = FileAt(0 - 1411)
    /\ locals.include_hamradio
    /\ now = 30

\* C23: an invocation of main whose fetch raised, or whose fetched data has
\* 'N/A' for solar_flux, k_index or xray_class, exits with failure before
\* post_to_all is called: nothing is published and no post_thread call is
\* made with such data.
C23_NoPostWithoutCriticalData ==
    LET incomplete(data) ==
            \E field \in {"solar_flux", "k_index", "xray_class"} :
                Field(data, field) = NA
    IN  /\ (MainReturned /\ "data" \in DOMAIN locals /\ incomplete(locals.data)) =>
               /\ ret.exit_code = 1
               /\ "results" \notin DOMAIN locals
               /\ \A platform \in Platforms : timeline[platform] = <<>>
        /\ (MainReturned /\ locals.stage = "fetch_error") =>
               /\ ret.exit_code = 1
               /\ "results" \notin DOMAIN locals
               /\ \A platform \in Platforms : timeline[platform] = <<>>
        /\ (pc = "posting" /\ "caller" \in DOMAIN args) =>
               ~incomplete(args.caller.data)

\* C23 witness: the fetch gave the solar flux and the K-index but no X-ray
\* class, and main has exited with failure
W23_XrayMissingExits ==
    /\ MainReturned
    /\ locals.stage = "missing_fields"
    /\ Field(locals.data, "xray_class") = NA
    /\ Field(locals.data, "solar_flux") = Number(150)
    /\ Field(locals.data, "k_index") = Number(3)
    /\ ret.exit_code = 1

---------------------------------------------------------------------------
(* The character limit: ensure_char_limit on texts around the two limits, and *)
(* format_thread_posts on the formatter's records.                             *)

\* texts are taken up to LimitMargin characters below and above a limit
LimitMargin == 5

CallEnsureCharLimit ==
    /\ pc = "idle"
    /\ \E limit \in {300, 500}, post \in {"solar_indices", "band_conditions",
                                           "absorption", "aurora", "xray"},
          len \in {0} \cup ((300 - LimitMargin) .. (300 + LimitMargin))
                      \cup ((500 - LimitMargin) .. (500 + LimitMargin)) :
        /\ args' = [fn |-> "ensure_char_limit", text |-> PostText(post, len),
                    limit |-> limit]
        /\ locals' = [fn |-> "ensure_char_limit"]
        /\ ret' = ensure_char_limit(PostText(post, len), limit)
    /\ pc' = "returned"
    /\ UNCHANGED env

SpecLimit == Init /\ [][CallFormatThreadPosts \/ CallEnsureCharLimit \/ Return]_vars

---------------------------------------------------------------------------
(* Properties of post_thread: a post whose image could not be had. *)

\* the image a published post was sent with
ImageOf(entry) == IF args.platform = "Bluesky" THEN entry.embed ELSE entry.media

\* the image of the post handled last could not be downloaded or generated
\* (no image data), or its upload raised
ImageFailed ==
    locals.img_data = "none" \/ locals.upload = "raise"

\* C25: in post_thread on either platform, when the image of a post cannot be
\* downloaded, generated or uploaded, the post is still published with its
\* text and without an image and the call goes on with the remaining posts;
\* the call returns False only when sending a post raised.
C25_ImageFailureKeepsPost ==
    (InPostThread /\ args.authenticated) =>
        /\ (pc = "returned" /\ ret = FALSE) => locals.e \in {"send_post", "status_post"}
        /\ (/\ locals.e = "unbound"
            /\ locals.sent > 0
            /\ args.posts[locals.sent].image_url # None
            /\ ImageFailed) =>
               /\ Published(locals.sent).text = args.posts[locals.sent].text
               /\ ImageOf(Published(locals.sent)) = None
               /\ pc = "returned" => (ret = TRUE /\ locals.sent = Len(args.posts))
               /\ pc = "posting" => locals.sent < Len(args.posts)

\* C25 witness: on Mastodon the D-RAP map and the aurora map were not attached,
\* the chart of the fifth post could not be generated, and the thread of five
\* posts has been published and reported True
W25_ThreadWithoutImages ==
    /\ InPostThread
    /\ args.platform = "Mastodon"
    /\ pc = "returned"
    /\ ret = TRUE
    /\ locals.sent = 5
    /\ locals.img_data = "none"
    /\ args.posts[5].image_url = Text("GENERATE_CHART")
    /\ \A n \in 3 .. 5 : Published(n).media = None

---------------------------------------------------------------------------
(* Properties of fetch_space_weather_data: the hour of the derived values. *)

\* C26: within one call of fetch_space_weather_data the band classification
\* and the best-bands recommendation are computed from the same UTC hour as
\* the absorption factor, whatever the clock does during the call, so the
\* result is what one hour gives for the whole derivation.
C26_OneHourPerCall ==
    (FetchReturned /\ locals.derived) =>
        /\ locals.band_call.utc_hour = locals.absorption_call.utc_hour
        /\ locals.best_call.utc_hour = locals.absorption_call.utc_hour
        /\ ret["band_conditions"] =
               Dict(calculate_band_conditions(
                        locals.fof2, locals.muf_dx, locals.absorption, locals.k_val,
                        locals.absorption_call.utc_hour))
        /\ ret["best_bands_now"] =
               Text(get_best_bands_now(locals.absorption_call.utc_hour, locals.fof2))

---------------------------------------------------------------------------
(* Properties of calculate_band_conditions: the quality Poor. *)

\* C27: calculate_band_conditions classifies no band as Poor, for any critical
\* frequency, MUF, absorption, K-index and hour: a high band (15m, 12m, 10m, 6m)
\* that is neither above the MUF nor above 2.5 x foF2 has foF2 >= 8.48 MHz, so
\* its quality is Good when K < 4 and Fair otherwise.
C27_NoBandIsPoor ==
    BandsReturned =>
        \A band \in DOMAIN ret :
            /\ ret[band].quality # "Poor"
            /\ (/\ band \in HighBands
                /\ ~(bands[band].freq > args.muf)
                /\ ~(2 * bands[band].freq > 5 * args.fof2)) =>
                   /\ args.fof2 >= 8480
                   /\ ret[band].quality = IF args.k_index < 4 THEN "Good" ELSE "Fair"

\* C27 witness: 15m exactly at 2.5 x foF2 (foF2 8.48 MHz) and at the MUF, with
\* K = 4, falls to the high-band rule and is Fair
W27_HighBandAtThreshold ==
    /\ BandsReturned
    /\ args.fof2 = 8480
    /\ args.muf = 21200
    /\ args.k_index = 4
    /\ ret["15m"].quality = "Fair"
    /\ ret["12m"].quality = "Closed"

---------------------------------------------------------------------------
(* Properties of fetch_space_weather_data: the recommended bands. *)

\* the bands a best_bands_now string names
BandsNamedIn(best_bands) ==
    CASE best_bands = "20m, 17m, 15m, 12m" -> {"20m", "17m", "15m", "12m"}
      [] best_bands = "40m, 30m, 20m, 17m" -> {"40m", "30m", "20m", "17m"}
      [] best_bands = "40m, 30m, 20m" -> {"40m", "30m", "20m"}
      [] best_bands = "80m, 40m, 30m, 20m" -> {"80m", "40m", "30m", "20m"}
      [] best_bands = "80m, 40m, 30m" -> {"80m", "40m", "30m"}

\* C28: in every result of fetch_space_weather_data with derived values (foF2
\* from the solar flux, rounded, at least 4.9 MHz, and MUF = 4 x foF2) no band
\* named in best_bands_now is Closed in band_conditions of the same result, for
\* every solar flux, K-index and UTC hour 0..23.
C28_BestBandsAreOpen ==
    (FetchReturned /\ locals.derived) =>
        /\ ret["fof2"].value >= 4900
        /\ \A band \in BandsNamedIn(ret["best_bands_now"].value) :
              ret["band_conditions"].value[band].quality # "Closed"

\* C28 witness: solar flux 50 by day gives foF2 4.9 MHz and MUF 19.6 MHz; the
\* recommended 40m, 30m, 20m are open and 15m is Closed
W28_LowestFof2ByDay ==
    /\ FetchReturned
    /\ locals.derived
    /\ ret["solar_flux"] = Number(50)
    /\ ret["fof2"] = Number(4900)
    /\ ret["muf_dx"] = Number(19600)
    /\ ret["best_bands_now"] = Text("40m, 30m, 20m")
    /\ ret["band_conditions"].value["20m"].quality # "Closed"
    /\ ret["band_conditions"].value["15m"].quality = "Closed"

---------------------------------------------------------------------------
(* Properties of fetch_space_weather_data: day and night. *)

\* C29: for every UTC hour 0..23 the three day/night tests agree: the
\* absorption estimator takes its night branch (|hour - 12| > 6) exactly when
\* the band classifier's is_night holds (160m, always below the MUF and
\* 2.5 x foF2, is Good) and exactly when get_best_bands_now's is_day does not
\* (the recommendation starts with 80m).
C29_DayNightTestsAgree ==
    (/\ FetchReturned
     /\ locals.derived
     /\ locals.band_call.utc_hour = locals.absorption_call.utc_hour) =>
        LET hour == locals.absorption_call.utc_hour
            estimator_night ==
                (ret["d_region_absorption"].value.time_desc = "Night")
            classifier_night ==
                (ret["band_conditions"].value["160m"].quality = "Good")
            best_bands_night ==
                ("80m" \in BandsNamedIn(ret["best_bands_now"].value))
        IN  /\ hour \in 0 .. 23
            /\ estimator_night <=> (AbsVal(hour - 12) > 6)
            /\ estimator_night <=> classifier_night
            /\ estimator_night <=> best_bands_night
            /\ classifier_night <=> is_night(hour)
            /\ best_bands_night <=> ~is_day(hour)

\* C29 witness: at hour 18, the last hour of the day, the estimator says Day,
\* 160m is Fair and the recommendation is a daytime one
W29_Hour18IsDay ==
    /\ FetchReturned
    /\ locals.derived
    /\ locals.absorption_call.utc_hour = 18
    /\ locals.band_call.utc_hour = 18
    /\ ret["d_region_absorption"].value.time_desc = "Day"
    /\ ret["band_conditions"].value["160m"].quality = "Fair"
    /\ ret["best_bands_now"] = Text("20m, 17m, 15m, 12m")

=============================================================================
